---- MODULE Spec2Model ----
(***************************************************************************)
(* Verification model of rxcppv3 (src/rx.h): the subscription (lifetime)   *)
(* graph, the observer discipline, the immediate and run-loop strands and  *)
(* the merge operator.  Each subsystem has its own specification; the      *)
(* variables of the other subsystems stay at their initial values.         *)
(***************************************************************************)
EXTENDS Integers, Sequences, FiniteSets, TLC

(***************************************************************************)
(* Bounds                                                                  *)
(***************************************************************************)
\* user threads that call into the lifetime graph
NThreads == 2
\* calls the user threads may start, all together
MaxOps == 3
\* distinct user stop-hooks
NHooks == 2

(***************************************************************************)
(* Part 1 - subscription (src/rx.h 157-316)                                *)
(***************************************************************************)
\* three subscription objects: a parent, a child and the lifetime of the
\* strand the parent's context defers its teardown to
P == "P"
C == "C"
S == "S"
Lifetimes == {P, C, S}
UserLifetimes == {P, C}
Threads == 1..NThreads
\* the thread that runs the run-loop of the context's strand
Worker == 0
AllThreads == Threads \cup {Worker}
Hooks == 1..NHooks

VARIABLES
    stopped,      \* shared::stopped, per lifetime
    others,       \* shared::others, per lifetime
    stoppers,     \* shared::stoppers, per lifetime (front first)
    lock,         \* shared::lock is held, per lifetime
    deferMode,    \* shared::defer: "inline" (default thunk) or "strand"
    stack,        \* per thread: the call stack, top first
    opsLeft,      \* calls the user threads may still start
    tq,           \* teardown thunks posted on the context's strand
    runs,         \* per user hook: how often it has run
    hookOwner,    \* per user hook: the lifetime it was inserted into, or "none"
    registered,   \* user hooks whose insert() has returned
    inTeardown,   \* user hooks that were run by a teardown thunk
    attached,     \* per lifetime: children whose insert() stored them, not erased
    tornDown,     \* per lifetime: its teardown thunk reached notify_all
    joinEarly,    \* a join() returned while the teardown was incomplete
    joinDone,     \* number of join() calls that returned
    aborted,      \* std::abort() was called
    hookLog       \* user hooks in the order of their emplace_front, those stored after the flag was set, and the order they ran in

lifeVars == <<stopped, others, stoppers, lock, deferMode, stack, opsLeft, tq,
              runs, hookOwner, registered, inTeardown, attached, tornDown,
              joinEarly, joinDone, aborted, hookLog>>

\* the observers of Part 2
VARIABLES
    obsCfg,       \* what each callback does, and whether U and D share a lifetime
    obs,          \* lifetimes' stopped flags and what the callbacks have done
    obsCalls      \* calls the driver may still make

obsVars == <<obsCfg, obs, obsCalls>>

\* the strands of Part 3
VARIABLES
    skind,        \* the strand: "immediate" or "run_loop"
    now,          \* Clock::now()
    sl,           \* per lifetime: shared::stopped
    kids,         \* per lifetime: shared::others
    stopStack,    \* the thread that calls stop(): teardowns in progress, top first
    stopDone,     \* per lifetime: stop() has finished its teardown
    queue,        \* guarded_loop::deferred, the elements of the priority queue
    ordinal,      \* observe_at_queue::ordinal
    pushes,       \* number of push() calls so far
    deferred,     \* observers that were handed to defer_at
    via,          \* per observer: deferred on the strand itself or on a derived one
    cstack,       \* per thread: the defer_at / call frames it is in, top first
    reschedLeft,  \* self(at) calls still allowed
    hung,         \* a thread re-locked a mutex it holds
    lastPop       \* the element step() popped for the call in progress, and the queue it left

strandVars == <<skind, now, sl, kids, stopStack, stopDone, queue, ordinal, pushes,
                deferred, via, cstack, reschedLeft, hung, lastPop>>

\* the merge operator of Part 4
VARIABLES
    mergeKind,    \* the strand factory handed to merge: "immediate" or "thread"
    async,        \* inner observables that emit on a thread of their own
    outerLen,     \* number of inner observables the outer source emits
    sent,         \* number of inner observables the outer source has emitted
    finished,     \* sources that have called complete (0: the outer source)
    started,      \* inner observables merge has subscribed to
    pending,      \* merge's set<subscription> of input lifetimes
    mstopped,     \* per input lifetime: shared::stopped
    destStopped,  \* shared::stopped of the destination's lifetime
    completes,    \* times the destination's complete callback has run
    mq,           \* the shared strand's queue of deferred calls
    mframe,       \* per thread: the call it is executing
    lifter,       \* transform in front of merge: "none", "live", or "stopped" once its observer has stopped its lifetime
    emitted,      \* inner observables that have emitted their value
    observed,     \* per inner observable: times the destination's next callback ran with its value
    merr          \* inner observables that raised an error, and the times the destination's error callback has run

mergeVars == <<mergeKind, async, outerLen, sent, finished, started, pending,
               mstopped, destStopped, completes, mq, mframe, lifter, emitted,
               observed, merr>>

\* the pipelines of Part 5
VARIABLES
    pipe          \* source | take(n) | subscriber: configuration, ints' loop, take's remaining, what the subscriber saw

pipeVars == <<pipe>>

\* the periodic observer of Part 6
VARIABLES
    per           \* defer_periodic: the strand's position, out.lifetime, the count, the joining thread

perVars == <<per>>

\* delay of Part 7
VARIABLES
    dl            \* delay(S, d): the clock, the strand's queue, the signals received and delivered

delayVars == <<dl>>

\* the states of Part 8
VARIABLES
    sto           \* one shared store: references to it, its destructors, which of them ran, stopped, the make_state or copy_state call in progress

stateVars == <<sto>>

\* finally of Part 9
VARIABLES
    fin           \* source | finally(f) | subscriber: the source's position, the lifetime's flag, lock and stoppers, the stop() calls in progress, how often f ran, what the subscriber saw

finallyVars == <<fin>>

\* observe_on of Part 10
VARIABLES
    oo            \* one run of a source through source | subscriber, through source | observe_on(make_immediate) | subscriber and through the general observe_on on an immediate strand: the calls to come, each pipeline's lifetimes and what its subscriber saw

observeVars == <<oo>>

\* lifters piped together, of Part 11
VARIABLES
    lp            \* one pipeline source - copy_if, take, last_or_default - subscriber: the pipeline expression and the subscriber it yields, the source's position, the operators' states, the one lifetime's flag and what the subscriber saw

liftVars == <<lp>>

\* the run-loop under its locks
VARIABLES
    rl            \* locks, flags, queue, clock and the three threads' positions

loopVars == <<rl>>

\* what the actions of one part leave alone
notLife == <<obsVars, strandVars, mergeVars, pipeVars, perVars,
    delayVars, stateVars, finallyVars, observeVars, liftVars, loopVars>>
notObs == <<lifeVars, strandVars, mergeVars, pipeVars, perVars,
    delayVars, stateVars, finallyVars, observeVars, liftVars, loopVars>>
notStrand == <<lifeVars, obsVars, mergeVars, pipeVars, perVars,
    delayVars, stateVars, finallyVars, observeVars, liftVars, loopVars>>
notMerge == <<lifeVars, obsVars, strandVars, pipeVars, perVars,
    delayVars, stateVars, finallyVars, observeVars, liftVars, loopVars>>
notPipe == <<lifeVars, obsVars, strandVars, mergeVars, perVars,
    delayVars, stateVars, finallyVars, observeVars, liftVars, loopVars>>
notPer == <<lifeVars, obsVars, strandVars, mergeVars, pipeVars,
    delayVars, stateVars, finallyVars, observeVars, liftVars, loopVars>>
notDelay == <<lifeVars, obsVars, strandVars, mergeVars, pipeVars,
    perVars, stateVars, finallyVars, observeVars, liftVars, loopVars>>
notState == <<lifeVars, obsVars, strandVars, mergeVars, pipeVars,
    perVars, delayVars, finallyVars, observeVars, liftVars, loopVars>>
notFinally == <<lifeVars, obsVars, strandVars, mergeVars, pipeVars,
    perVars, delayVars, stateVars, observeVars, liftVars, loopVars>>
notObserve == <<lifeVars, obsVars, strandVars, mergeVars, pipeVars,
    perVars, delayVars, stateVars, finallyVars, liftVars, loopVars>>
notLift == <<lifeVars, obsVars, strandVars, mergeVars, pipeVars,
    perVars, delayVars, stateVars, finallyVars, observeVars, loopVars>>
notLoop == <<lifeVars, obsVars, strandVars, mergeVars, pipeVars, perVars,
    delayVars, stateVars, finallyVars, observeVars, liftVars>>

vars == <<lifeVars, obsVars, strandVars, mergeVars, pipeVars, perVars,
          delayVars, stateVars, finallyVars, observeVars, liftVars, loopVars>>

NoHook == [kind |-> "none", id |-> 0, p |-> "none", c |-> "none"]
UserHook(h) == [kind |-> "user", id |-> h, p |-> "none", c |-> "none"]
\* the unnest thunk that insert(const subscription&) registers on the child
EraseHook(p, c) == [kind |-> "erase", id |-> 0, p |-> p, c |-> c]

Frame(op, pc, l, c, h) ==
    [op |-> op, pc |-> pc, l |-> l, c |-> c, h |-> h,
     todo |-> {}, hs |-> <<>>, held |-> FALSE]

Top(t) == stack[t][1]
HasTop(t, op, pc) == ~aborted /\ stack[t] # <<>> /\ Top(t).op = op /\ Top(t).pc = pc
Pop(t) == [stack EXCEPT ![t] = Tail(@)]
Replace(t, f) == [stack EXCEPT ![t] = <<f>> \o Tail(@)]
ReplacePush(t, f, g) == [stack EXCEPT ![t] = <<g, f>> \o Tail(@)]

\* stoppers.emplace_front (rx.h 246)
emplace_front(list, h) == <<h>> \o list

\* subscription::is_stopped
is_stopped(l) == stopped[l]

\* running a stopper: a user hook is counted and calls stop() on its own
\* lifetime again, the unnest thunk calls p.erase(c)
RunHook(t, h, rest, teardown) ==
    IF h.kind = "user"
    THEN /\ runs' = [runs EXCEPT ![h.id] = @ + 1]
         /\ hookLog' = [hookLog EXCEPT !.ran =
                           Append(@, [id |-> h.id, live |-> ~stopped[hookOwner[h.id]]])]
         /\ inTeardown' = IF teardown THEN inTeardown \cup {h.id} ELSE inTeardown
         /\ stack' = [rest EXCEPT ![t] =
                         <<Frame("stop", "check", hookOwner[h.id], hookOwner[h.id], NoHook)>> \o @]
    ELSE /\ stack' = [rest EXCEPT ![t] = <<Frame("erase", "check", h.p, h.c, NoHook)>> \o @]
         /\ UNCHANGED <<runs, inTeardown, hookLog>>

(* ---- calls a user thread may start --------------------------------- *)
Idle(t) == ~aborted /\ stack[t] = <<>> /\ opsLeft > 0

Begin(t, f) ==
    /\ stack' = [stack EXCEPT ![t] = <<f>>]
    /\ opsLeft' = opsLeft - 1

\* a thread calls p.insert(c)
CallInsertChild(t) ==
    /\ Idle(t)
    /\ \E p \in UserLifetimes, c \in UserLifetimes :
         Begin(t, Frame("insert", "check", p, c, NoHook))
    /\ UNCHANGED <<stopped, others, stoppers, lock, deferMode, tq, runs, hookOwner,
                   registered, inTeardown, attached, tornDown, joinEarly, joinDone,
                   aborted>>
    /\ UNCHANGED hookLog
    /\ UNCHANGED notLife

\* a thread calls p.erase(c)
CallErase(t) ==
    /\ Idle(t)
    /\ \E p \in UserLifetimes, c \in UserLifetimes :
         Begin(t, Frame("erase", "check", p, c, NoHook))
    /\ UNCHANGED <<stopped, others, stoppers, lock, deferMode, tq, runs, hookOwner,
                   registered, inTeardown, attached, tornDown, joinEarly, joinDone,
                   aborted>>
    /\ UNCHANGED hookLog
    /\ UNCHANGED notLife

\* a thread calls l.insert(stopper) with a stopper not used before
CallInsertHook(t) ==
    /\ Idle(t)
    /\ \E l \in UserLifetimes, h \in Hooks :
         /\ hookOwner[h] = "none"
         /\ \A g \in Hooks : g < h => hookOwner[g] # "none"
         /\ hookOwner' = [hookOwner EXCEPT ![h] = l]
         /\ Begin(t, Frame("inserthook", "check", l, l, UserHook(h)))
    /\ UNCHANGED <<stopped, others, stoppers, lock, deferMode, tq, runs,
                   registered, inTeardown, attached, tornDown, joinEarly, joinDone,
                   aborted>>
    /\ UNCHANGED hookLog
    /\ UNCHANGED notLife

\* a thread calls l.stop()
CallStop(t) ==
    /\ Idle(t)
    /\ \E l \in UserLifetimes : Begin(t, Frame("stop", "check", l, l, NoHook))
    /\ UNCHANGED <<stopped, others, stoppers, lock, deferMode, tq, runs, hookOwner,
                   registered, inTeardown, attached, tornDown, joinEarly, joinDone,
                   aborted>>
    /\ UNCHANGED hookLog
    /\ UNCHANGED notLife

\* a thread calls l.join()
CallJoin(t) ==
    /\ Idle(t)
    /\ \E l \in UserLifetimes : Begin(t, Frame("join", "check", l, l, NoHook))
    /\ UNCHANGED <<stopped, others, stoppers, lock, deferMode, tq, runs, hookOwner,
                   registered, inTeardown, attached, tornDown, joinEarly, joinDone,
                   aborted>>
    /\ UNCHANGED hookLog
    /\ UNCHANGED notLife

(* ---- subscription::insert(const subscription&), rx.h 199-224 -------- *)
\* lines 200-207: a stopped parent stops the child instead; self-insert aborts
InsertChildCheck(t) ==
    /\ HasTop(t, "insert", "check")
    /\ LET f == Top(t) IN
         IF is_stopped(f.l)
         THEN /\ stack' = Replace(t, Frame("stop", "check", f.c, f.c, NoHook))
              /\ UNCHANGED aborted
         ELSE IF f.c = f.l
         THEN /\ aborted' = TRUE
              /\ UNCHANGED stack
         ELSE /\ stack' = Replace(t, [f EXCEPT !.pc = "lock"])
              /\ UNCHANGED aborted
    /\ UNCHANGED <<stopped, others, stoppers, lock, deferMode, opsLeft, tq, runs,
                   hookOwner, registered, inTeardown, attached, tornDown, joinEarly,
                   joinDone>>
    /\ UNCHANGED hookLog
    /\ UNCHANGED notLife

\* lines 209-223: take the parent's lock, nest the child, then call
\* s.insert(unnest thunk) with the lock still held
InsertChildLock(t) ==
    /\ HasTop(t, "insert", "lock")
    /\ LET f == Top(t) IN
         /\ ~lock[f.l]
         /\ lock' = [lock EXCEPT ![f.l] = TRUE]
         /\ others' = [others EXCEPT ![f.l] = @ \cup {f.c}]
         /\ attached' = [attached EXCEPT ![f.l] = @ \cup {f.c}]
         /\ stack' = ReplacePush(t, [f EXCEPT !.pc = "unlock"],
                                 Frame("inserthook", "check", f.c, f.c, EraseHook(f.l, f.c)))
    /\ UNCHANGED <<stopped, stoppers, deferMode, opsLeft, tq, runs, hookOwner,
                   registered, inTeardown, tornDown, joinEarly, joinDone, aborted>>
    /\ UNCHANGED hookLog
    /\ UNCHANGED notLife

\* line 224: the guard is released when insert returns
InsertChildUnlock(t) ==
    /\ HasTop(t, "insert", "unlock")
    /\ lock' = [lock EXCEPT ![Top(t).l] = FALSE]
    /\ stack' = Pop(t)
    /\ UNCHANGED <<stopped, others, stoppers, deferMode, opsLeft, tq, runs, hookOwner,
                   registered, inTeardown, attached, tornDown, joinEarly, joinDone,
                   aborted>>
    /\ UNCHANGED hookLog
    /\ UNCHANGED notLife

(* ---- subscription::insert(function<void()>), rx.h 239-248 ----------- *)
\* lines 240-243: on a stopped lifetime the stopper runs at once
InsertHookCheck(t) ==
    /\ HasTop(t, "inserthook", "check")
    /\ LET f == Top(t) IN
         IF is_stopped(f.l)
         THEN /\ RunHook(t, f.h, Pop(t), FALSE)
              /\ registered' = IF f.h.kind = "user" THEN registered \cup {f.h.id}
                               ELSE registered
         ELSE /\ stack' = Replace(t, [f EXCEPT !.pc = "lock"])
              /\ UNCHANGED <<runs, inTeardown, registered, hookLog>>
    /\ UNCHANGED <<stopped, others, stoppers, lock, deferMode, opsLeft, tq, hookOwner,
                   attached, tornDown, joinEarly, joinDone, aborted>>
    /\ UNCHANGED notLife

\* lines 245-247: lock, emplace_front; the trailing "if (store->stopped) stop()"
\* calls stop(), whose first statement returns when is_stopped() (line 269)
InsertHookLock(t) ==
    /\ HasTop(t, "inserthook", "lock")
    /\ LET f == Top(t) IN
         /\ ~lock[f.l]
         /\ stoppers' = [stoppers EXCEPT ![f.l] = emplace_front(@, f.h)]
         /\ registered' = IF f.h.kind = "user" THEN registered \cup {f.h.id}
                          ELSE registered
         /\ hookLog' = IF f.h.kind = "user"
                       THEN [hookLog EXCEPT !.ins = Append(@, f.h.id),
                                            !.late = IF stopped[f.l] THEN @ \cup {f.h.id} ELSE @]
                       ELSE hookLog
         /\ stack' = Pop(t)
    /\ UNCHANGED <<stopped, others, lock, deferMode, opsLeft, tq, runs, hookOwner,
                   inTeardown, attached, tornDown, joinEarly, joinDone, aborted>>
    /\ UNCHANGED notLife

(* ---- subscription::erase, rx.h 226-237 ------------------------------ *)
EraseCheck(t) ==
    /\ HasTop(t, "erase", "check")
    /\ LET f == Top(t) IN
         IF is_stopped(f.l)
         THEN /\ stack' = Pop(t)
              /\ UNCHANGED aborted
         ELSE IF f.c = f.l
         THEN /\ aborted' = TRUE
              /\ UNCHANGED stack
         ELSE /\ stack' = Replace(t, [f EXCEPT !.pc = "lock"])
              /\ UNCHANGED aborted
    /\ UNCHANGED <<stopped, others, stoppers, lock, deferMode, opsLeft, tq, runs,
                   hookOwner, registered, inTeardown, attached, tornDown, joinEarly,
                   joinDone>>
    /\ UNCHANGED hookLog
    /\ UNCHANGED notLife

\* an erase that leaves the set as it is
erase_none(set, c) == set

\* std::set::erase (rx.h 236)
erase(set, c) == set \ {c}

\* lines 235-236: take the lock, store->others.erase(s)
EraseLock(t) ==
    /\ HasTop(t, "erase", "lock")
    /\ LET f == Top(t) IN
         /\ ~lock[f.l]
         /\ others' = [others EXCEPT ![f.l] = erase(@, f.c)]
         /\ attached' = [attached EXCEPT ![f.l] = @ \ {f.c}]
         /\ stack' = Pop(t)
    /\ UNCHANGED <<stopped, stoppers, lock, deferMode, opsLeft, tq, runs, hookOwner,
                   registered, inTeardown, tornDown, joinEarly, joinDone, aborted>>
    /\ UNCHANGED hookLog
    /\ UNCHANGED notLife

(* ---- subscription::stop, rx.h 268-301 ------------------------------- *)
\* lines 269-271
StopCheck(t) ==
    /\ HasTop(t, "stop", "check")
    /\ stack' = IF is_stopped(Top(t).l) THEN Pop(t)
                ELSE Replace(t, [Top(t) EXCEPT !.pc = "lock"])
    /\ UNCHANGED <<stopped, others, stoppers, lock, deferMode, opsLeft, tq, runs,
                   hookOwner, registered, inTeardown, attached, tornDown, joinEarly,
                   joinDone, aborted>>
    /\ UNCHANGED hookLog
    /\ UNCHANGED notLife

\* lines 272-279: lock, set the flag, hand the teardown thunk to st->defer;
\* the default thunk runs it here, with the guard still held
StopLock(t) ==
    /\ HasTop(t, "stop", "lock")
    /\ LET f == Top(t) IN
         /\ ~lock[f.l]
         /\ lock' = [lock EXCEPT ![f.l] = TRUE]
         /\ stopped' = [stopped EXCEPT ![f.l] = TRUE]
         /\ stack' = Replace(t, [f EXCEPT !.held = TRUE,
                        !.pc = IF deferMode[f.l] = "inline" THEN "td_others" ELSE "post"])
    /\ UNCHANGED <<others, stoppers, deferMode, opsLeft, tq, runs, hookOwner,
                   registered, inTeardown, attached, tornDown, joinEarly, joinDone,
                   aborted>>
    /\ UNCHANGED hookLog
    /\ UNCHANGED notLife

\* the thunk bound by context (rx.h 1146-1150): defer(ref.s, observer running
\* target) pushes the teardown on the strand's queue (run_loop::strand, rx.h
\* 2423-2430); lifetime.insert(out.lifetime) stops the item's lifetime when the
\* strand's lifetime is already stopped, and such an item never runs its next
StopPost(t) ==
    /\ HasTop(t, "stop", "post")
    /\ LET f == Top(t) IN
         /\ is_stopped(S) \/ ~lock[S]
         /\ tq' = IF is_stopped(S) THEN tq ELSE Append(tq, f.l)
         /\ lock' = [lock EXCEPT ![f.l] = FALSE]
         /\ stack' = Pop(t)
    /\ UNCHANGED <<stopped, others, stoppers, deferMode, opsLeft, runs, hookOwner,
                   registered, inTeardown, attached, tornDown, joinEarly, joinDone,
                   aborted>>
    /\ UNCHANGED hookLog
    /\ UNCHANGED notLife

\* line 282: auto others = std::move(st->others)
TeardownOthers(t) ==
    /\ HasTop(t, "stop", "td_others")
    /\ LET f == Top(t) IN
         /\ stack' = Replace(t, [f EXCEPT !.todo = others[f.l], !.pc = "td_child"])
         /\ others' = [others EXCEPT ![f.l] = {}]
    /\ UNCHANGED <<stopped, stoppers, lock, deferMode, opsLeft, tq, runs, hookOwner,
                   registered, inTeardown, attached, tornDown, joinEarly, joinDone,
                   aborted>>
    /\ UNCHANGED hookLog
    /\ UNCHANGED notLife

\* lines 283-284: for each child (std::set order, any order here): o.stop()
TeardownChild(t) ==
    /\ HasTop(t, "stop", "td_child")
    /\ LET f == Top(t) IN
         IF f.todo = {}
         THEN stack' = Replace(t, [f EXCEPT !.pc = "td_stoppers"])
         ELSE \E o \in f.todo :
                stack' = ReplacePush(t, [f EXCEPT !.todo = @ \ {o}, !.c = o, !.pc = "td_join"],
                                     Frame("stop", "check", o, o, NoHook))
    /\ UNCHANGED <<stopped, others, stoppers, lock, deferMode, opsLeft, tq, runs,
                   hookOwner, registered, inTeardown, attached, tornDown, joinEarly,
                   joinDone, aborted>>
    /\ UNCHANGED hookLog
    /\ UNCHANGED notLife

\* line 285: o.join()
TeardownJoin(t) ==
    /\ HasTop(t, "stop", "td_join")
    /\ LET f == Top(t) IN
         stack' = ReplacePush(t, [f EXCEPT !.pc = "td_child"],
                              Frame("join", "check", f.c, f.c, NoHook))
    /\ UNCHANGED <<stopped, others, stoppers, lock, deferMode, opsLeft, tq, runs,
                   hookOwner, registered, inTeardown, attached, tornDown, joinEarly,
                   joinDone, aborted>>
    /\ UNCHANGED hookLog
    /\ UNCHANGED notLife

copied_from(list) == list

\* what std::move leaves behind in st->stoppers (line 289): the empty list
moved_from(list) == <<>>

\* line 289: auto stoppers = std::move(st->stoppers)
TeardownStoppers(t) ==
    /\ HasTop(t, "stop", "td_stoppers")
    /\ LET f == Top(t) IN
         /\ stack' = Replace(t, [f EXCEPT !.hs = stoppers[f.l], !.pc = "td_hook"])
         /\ stoppers' = [stoppers EXCEPT ![f.l] = moved_from(@)]
    /\ UNCHANGED <<stopped, others, lock, deferMode, opsLeft, tq, runs, hookOwner,
                   registered, inTeardown, attached, tornDown, joinEarly, joinDone,
                   aborted>>
    /\ UNCHANGED hookLog
    /\ UNCHANGED notLife

\* lines 290-292: for (auto& s : stoppers) s()
TeardownHook(t) ==
    /\ HasTop(t, "stop", "td_hook")
    /\ LET f == Top(t) IN
         IF f.hs = <<>>
         THEN /\ stack' = Replace(t, [f EXCEPT !.pc = "td_notify"])
              /\ UNCHANGED <<runs, inTeardown, hookLog>>
         ELSE RunHook(t, Head(f.hs), Replace(t, [f EXCEPT !.hs = Tail(@)]), TRUE)
    /\ UNCHANGED <<stopped, others, stoppers, lock, deferMode, opsLeft, tq, hookOwner,
                   registered, attached, tornDown, joinEarly, joinDone, aborted>>
    /\ UNCHANGED notLife

\* lines 294-300: reset the defer thunk, notify the joiners; the guard taken
\* by stop() is released when the inline thunk returns
TeardownNotify(t) ==
    /\ HasTop(t, "stop", "td_notify")
    /\ LET f == Top(t) IN
         /\ deferMode' = [deferMode EXCEPT ![f.l] = "inline"]
         /\ tornDown' = [tornDown EXCEPT ![f.l] = TRUE]
         /\ lock' = IF f.held THEN [lock EXCEPT ![f.l] = FALSE] ELSE lock
         /\ stack' = Pop(t)
    /\ UNCHANGED <<stopped, others, stoppers, opsLeft, tq, runs, hookOwner,
                   registered, inTeardown, attached, joinEarly, joinDone, aborted>>
    /\ UNCHANGED hookLog
    /\ UNCHANGED notLife

(* ---- subscription::join, rx.h 303-311 ------------------------------- *)
\* what join() records when it returns
JoinReturn(t) ==
    /\ stack' = Pop(t)
    /\ joinDone' = joinDone + 1
    /\ joinEarly' = (joinEarly \/ ~tornDown[Top(t).l])

\* lines 304-306
JoinCheck(t) ==
    /\ HasTop(t, "join", "check")
    /\ IF is_stopped(Top(t).l)
       THEN JoinReturn(t)
       ELSE /\ stack' = Replace(t, [Top(t) EXCEPT !.pc = "wait"])
            /\ UNCHANGED <<joinDone, joinEarly>>
    /\ UNCHANGED <<stopped, others, stoppers, lock, deferMode, opsLeft, tq, runs,
                   hookOwner, registered, inTeardown, attached, tornDown, aborted>>
    /\ UNCHANGED hookLog
    /\ UNCHANGED notLife

\* lines 308-309: joined.wait(guard, pred) returns when pred (stopped) holds at
\* its first evaluation or after a wake-up
JoinWait(t) ==
    /\ HasTop(t, "join", "wait")
    /\ stopped[Top(t).l]
    /\ JoinReturn(t)
    /\ UNCHANGED <<stopped, others, stoppers, lock, deferMode, opsLeft, tq, runs,
                   hookOwner, registered, inTeardown, attached, tornDown, aborted>>
    /\ UNCHANGED hookLog
    /\ UNCHANGED notLife

(* ---- the strand's worker, run_loop::run/step/call, rx.h 2368-2416 --- *)
\* pops the next teardown thunk and runs it on the worker thread (no
\* subscription lock is held there)
WorkerStep ==
    /\ ~aborted
    /\ stack[Worker] = <<>>
    /\ tq # <<>>
    /\ ~is_stopped(S)
    /\ tq' = Tail(tq)
    /\ stack' = [stack EXCEPT ![Worker] =
                    <<Frame("stop", "td_others", Head(tq), Head(tq), NoHook)>>]
    /\ UNCHANGED <<stopped, others, stoppers, lock, deferMode, opsLeft, runs, hookOwner,
                   registered, inTeardown, attached, tornDown, joinEarly, joinDone,
                   aborted>>
    /\ UNCHANGED hookLog
    /\ UNCHANGED notLife

\* the worker takes an item some observable deferred on the strand and runs
\* its next - a data callback (run_loop::step and call, rx.h 2368-2407) - while
\* the strand's lifetime is live
WorkerData ==
    /\ ~aborted
    /\ stack[Worker] = <<>>
    /\ S \in attached[P]
    /\ ~is_stopped(S)
    /\ stack' = [stack EXCEPT ![Worker] = <<Frame("data", "run", S, S, NoHook)>>]
    /\ UNCHANGED <<stopped, others, stoppers, lock, deferMode, opsLeft, tq, runs,
                   hookOwner, registered, inTeardown, attached, tornDown, joinEarly,
                   joinDone, aborted>>
    /\ UNCHANGED hookLog
    /\ UNCHANGED notLife

\* the data callback returns
WorkerDataReturn ==
    /\ HasTop(Worker, "data", "run")
    /\ stack' = Pop(Worker)
    /\ UNCHANGED <<stopped, others, stoppers, lock, deferMode, opsLeft, tq, runs,
                   hookOwner, registered, inTeardown, attached, tornDown, joinEarly,
                   joinDone, aborted>>
    /\ UNCHANGED hookLog
    /\ UNCHANGED notLife

\* subscription() (rx.h 174-178, 189) for P and C; when P is the lifetime of a
\* context (rx.h 1140-1151) the strand's lifetime S is nested in P and P's
\* defer thunk posts to the strand
LifeInit ==
    /\ stopped = [l \in Lifetimes |-> FALSE]
    /\ lock = [l \in Lifetimes |-> FALSE]
    /\ \E m \in {"inline", "strand"} :
         /\ deferMode = [l \in Lifetimes |-> IF l = P THEN m ELSE "inline"]
         /\ others = [l \in Lifetimes |-> IF l = P /\ m = "strand" THEN {S} ELSE {}]
         /\ attached = [l \in Lifetimes |-> IF l = P /\ m = "strand" THEN {S} ELSE {}]
         /\ stoppers = [l \in Lifetimes |->
                          IF l = S /\ m = "strand" THEN <<EraseHook(P, S)>> ELSE <<>>]
    /\ stack = [t \in AllThreads |-> <<>>]
    /\ opsLeft = MaxOps
    /\ tq = <<>>
    /\ runs = [h \in Hooks |-> 0]
    /\ hookOwner = [h \in Hooks |-> "none"]
    /\ registered = {}
    /\ inTeardown = {}
    /\ tornDown = [l \in Lifetimes |-> FALSE]
    /\ joinEarly = FALSE
    /\ joinDone = 0
    /\ aborted = FALSE
    /\ hookLog = [ins |-> <<>>, ran |-> <<>>, late |-> {}]

\* the same lifetimes once P.insert(C) (rx.h 199-224) and then C.insert(h)
\* (rx.h 239-248) have returned, P being the lifetime of a context: C is nested
\* in P and holds the unnest thunk and, in front of it, the stopper h
NestedInit ==
    /\ stopped = [l \in Lifetimes |-> FALSE]
    /\ lock = [l \in Lifetimes |-> FALSE]
    /\ deferMode = [l \in Lifetimes |-> IF l = P THEN "strand" ELSE "inline"]
    /\ others = [l \in Lifetimes |-> IF l = P THEN {S, C} ELSE {}]
    /\ attached = [l \in Lifetimes |-> IF l = P THEN {S, C} ELSE {}]
    /\ stoppers = [l \in Lifetimes |->
                     IF l = S THEN <<EraseHook(P, S)>>
                     ELSE IF l = C THEN emplace_front(<<EraseHook(P, C)>>, UserHook(1))
                     ELSE <<>>]
    /\ stack = [t \in AllThreads |-> <<>>]
    /\ opsLeft = MaxOps
    /\ tq = <<>>
    /\ runs = [h \in Hooks |-> 0]
    /\ hookOwner = [h \in Hooks |-> IF h = 1 THEN C ELSE "none"]
    /\ registered = {1}
    /\ inTeardown = {}
    /\ tornDown = [l \in Lifetimes |-> FALSE]
    /\ joinEarly = FALSE
    /\ joinDone = 0
    /\ aborted = FALSE
    /\ hookLog = [ins |-> <<1>>, ran |-> <<>>, late |-> {}]

LifeNext ==
    \/ \E t \in Threads : CallInsertChild(t)
    \/ \E t \in Threads : CallErase(t)
    \/ \E t \in Threads : CallInsertHook(t)
    \/ \E t \in Threads : CallStop(t)
    \/ \E t \in Threads : CallJoin(t)
    \/ \E t \in AllThreads : InsertChildCheck(t)
    \/ \E t \in AllThreads : InsertChildLock(t)
    \/ \E t \in AllThreads : InsertChildUnlock(t)
    \/ \E t \in AllThreads : InsertHookCheck(t)
    \/ \E t \in AllThreads : InsertHookLock(t)
    \/ \E t \in AllThreads : EraseCheck(t)
    \/ \E t \in AllThreads : EraseLock(t)
    \/ \E t \in AllThreads : StopCheck(t)
    \/ \E t \in AllThreads : StopLock(t)
    \/ \E t \in AllThreads : StopPost(t)
    \/ \E t \in AllThreads : TeardownOthers(t)
    \/ \E t \in AllThreads : TeardownChild(t)
    \/ \E t \in AllThreads : TeardownJoin(t)
    \/ \E t \in AllThreads : TeardownStoppers(t)
    \/ \E t \in AllThreads : TeardownHook(t)
    \/ \E t \in AllThreads : TeardownNotify(t)
    \/ \E t \in AllThreads : JoinCheck(t)
    \/ \E t \in AllThreads : JoinWait(t)
    \/ WorkerStep
    \/ WorkerData
    \/ WorkerDataReturn

(***************************************************************************)
(* Part 2 - observer (src/rx.h 469-684)                                    *)
(***************************************************************************)
\* calls the driver makes on the observers
MaxCalls == 3

\* a delegating observer U (rx.h 635-661) whose delegatee is the typed
\* observer D (rx.h 609-634); each has a lifetime, possibly the same one
Observers == {"U", "D"}
ObsLifetimes == {"LU", "LD"}
Signals == {"n", "e", "c"}

\* Next/Error/Complete of the typed observer: a user function that returns
\* ("ok") or throws ("throw"); detail::fail as the Error aborts, detail::ignore
\* (rx.h 504-508) as the Error returns
TypedCfgs ==
    [n : {"ok", "throw"}, e : {"ok", "throw", "fail", "ignore"}, c : {"ok", "throw"}]
\* Next/Error/Complete of the delegating observer: the defaults noop/pass/pass
\* forward to the delegatee ("pass"), detail::skip drops ("skip"), a user
\* function may throw ("throw"); detail::ignore as the Error of a delegating
\* observer is its two-argument overload (rx.h 509-512)
DelegCfgs ==
    [n : {"pass", "throw"}, e : {"pass", "skip", "throw", "ignore"},
     c : {"pass", "skip", "throw"}]

\* the subscription an observer holds
lifetime(o) == IF o = "U" \/ obsCfg.same THEN "LU" ELSE "LD"

\* a callback of observer o runs
Fire(s, o, k) ==
    [s EXCEPT !.fired[o][k] = @ + 1,
              !.late = @ \/ s.st[lifetime(o)]]

\* throw: the exception is in flight until a catch clause takes it
throw(s) == [s EXCEPT !.exc = TRUE]

\* detail::fail, rx.h 534-546: std::abort()
fail(s) == [s EXCEPT !.ab = TRUE, !.exc = FALSE]

\* the catch clause has taken the exception
caught(s) == [s EXCEPT !.exc = FALSE]

\* detail::report, rx.h 469-471: try { f(args...) } catch(...) { e(current_exception()) }
\* s1 is the state f left, handled the state the handler e leaves from caught(s1)
report(s1, handled) ==
    IF s1.ab THEN s1
    ELSE IF s1.exc THEN handled
    ELSE s1

\* detail::enforce, rx.h 473-477; ran is the state f(args...) leaves from s
enforce(s, l, ran) == IF s.st[l] THEN s ELSE ran

\* detail::end, rx.h 479-486: lifetime.stop() is reached only when f returns;
\* ran is the state f(cap..., args...) leaves from s
end(s, l, ran) ==
    IF s.st[l] THEN s
    ELSE IF ran.ab \/ ran.exc THEN ran
    ELSE [ran EXCEPT !.st[l] = TRUE]

\* a callback of the typed observer
TypedCallback(s, k) ==
    LET s1 == Fire(s, "D", k)
        b == obsCfg.D[k]
    IN  IF b = "ok" \/ b = "ignore" THEN s1
        ELSE IF b = "throw" THEN throw(s1)
        ELSE fail(s1)

\* observer<Next, Error, Complete>::next, rx.h 615-619
typed_next(s) ==
    LET s1 == enforce(s, lifetime("D"), TypedCallback(s, "n"))
        c1 == caught(s1)
    IN  report(s1, end(c1, lifetime("D"), TypedCallback(c1, "e")))

\* observer<Next, Error, Complete>::error, rx.h 620-624
typed_error(s) ==
    LET s1 == end(s, lifetime("D"), TypedCallback(s, "e"))
    IN  report(s1, fail(s1))

\* observer<Next, Error, Complete>::complete, rx.h 625-628
typed_complete(s) ==
    LET s1 == end(s, lifetime("D"), TypedCallback(s, "c"))
    IN  report(s1, fail(s1))

\* a callback of the delegating observer: noop (rx.h 493-496), pass (rx.h
\* 514-524) and ignore (rx.h 509-512: d.error(forward<E>(e))) call the
\* delegatee, skip (rx.h 525-533) does nothing
DelegCallback(s, k) ==
    LET s1 == Fire(s, "U", k)
        b == obsCfg.U[k]
    IN  IF b = "skip" THEN s1
        ELSE IF b = "throw" THEN throw(s1)
        ELSE IF k = "n" THEN typed_next(s1)
        ELSE IF k = "e" THEN typed_error([s1 EXCEPT !.fwd = @ + 1, !.fwdE = @ + 1])
        ELSE typed_complete([s1 EXCEPT !.fwd = @ + 1])

\* observer<Delegatee, Next, Error, Complete>::next, rx.h 642-646
deleg_next(s) ==
    LET s1 == enforce(s, lifetime("U"), DelegCallback(s, "n"))
        c1 == caught(s1)
    IN  report(s1, end(c1, lifetime("U"), DelegCallback(c1, "e")))

\* observer<Delegatee, Next, Error, Complete>::error, rx.h 647-651
deleg_error(s) ==
    LET s1 == end(s, lifetime("U"), DelegCallback(s, "e"))
    IN  report(s1, fail(s1))

\* observer<Delegatee, Next, Error, Complete>::complete, rx.h 652-655
deleg_complete(s) ==
    LET s1 == end(s, lifetime("U"), DelegCallback(s, "c"))
    IN  report(s1, fail(s1))

\* the driver's call returns; an exception that left the observer is caught
\* by the caller
Returned(s) == [s EXCEPT !.exc = FALSE, !.escaped = @ \/ s.exc]

CanCall == ~obs.ab /\ obsCalls > 0

\* the driver calls o.next(v)
ObsCallNext(o) ==
    /\ CanCall
    /\ obs' = Returned(IF o = "U" THEN deleg_next(obs) ELSE typed_next(obs))
    /\ obsCalls' = obsCalls - 1
    /\ UNCHANGED obsCfg
    /\ UNCHANGED notObs

\* the driver calls o.error(err)
ObsCallError(o) ==
    /\ CanCall
    /\ obs' = Returned(IF o = "U" THEN deleg_error(obs) ELSE typed_error(obs))
    /\ obsCalls' = obsCalls - 1
    /\ UNCHANGED obsCfg
    /\ UNCHANGED notObs

\* the driver calls o.complete()
ObsCallComplete(o) ==
    /\ CanCall
    /\ obs' = Returned(IF o = "U" THEN deleg_complete(obs) ELSE typed_complete(obs))
    /\ obsCalls' = obsCalls - 1
    /\ UNCHANGED obsCfg
    /\ UNCHANGED notObs

\* somebody else calls o.lifetime.stop()
ObsStop(o) ==
    /\ CanCall
    /\ ~obs.st[lifetime(o)]
    /\ obs' = [obs EXCEPT !.st[lifetime(o)] = TRUE]
    /\ obsCalls' = obsCalls - 1
    /\ UNCHANGED obsCfg
    /\ UNCHANGED notObs

ObsFresh ==
    [st |-> [l \in ObsLifetimes |-> FALSE],
     fired |-> [o \in Observers |-> [k \in Signals |-> 0]],
     fwd |-> 0, fwdE |-> 0, ab |-> FALSE, exc |-> FALSE, escaped |-> FALSE,
     late |-> FALSE]

\* make_observer (rx.h 663-684) with every choice of callbacks
ObsInit ==
    /\ obsCfg \in [U : DelegCfgs, D : TypedCfgs, same : BOOLEAN]
    /\ obs = ObsFresh
    /\ obsCalls = MaxCalls

\* no observer is in use
ObsOff ==
    /\ obsCfg = [U |-> [n |-> "pass", e |-> "pass", c |-> "pass"],
                 D |-> [n |-> "ok", e |-> "fail", c |-> "ok"], same |-> TRUE]
    /\ obs = ObsFresh
    /\ obsCalls = 0

ObsNext ==
    \/ \E o \in Observers : ObsCallNext(o)
    \/ \E o \in Observers : ObsCallError(o)
    \/ \E o \in Observers : ObsCallComplete(o)
    \/ \E o \in Observers : ObsStop(o)

(***************************************************************************)
(* Part 3 - strands (src/rx.h 730-752, 831-851, 2241-2487)                 *)
(***************************************************************************)
\* the clock runs from 0 to MaxTime
MaxTime == 1
\* self(at) calls, all observers together
MaxResched == 1

\* the observers handed to defer_at, named in the order in which they are
\* handed over; each name also stands for out.lifetime
Items == {"a", "b"}
\* the lifetimes of the strands derived by shared_strand_maker (rx.h 835)
DerivedLifetimes == {"DL", "DL2"}
\* SL: the strand's lifetime; RL: the run-loop's lifetime (rx.h 2482)
StrandLifetimes == {"SL", "RL"} \cup DerivedLifetimes \cup Items
UserThreads == {"T1", "T2"}
SThreads == UserThreads \cup {"W"}
Times == 0..MaxTime

\* the lifetime of the strand an observer was deferred on
StrandLife(i) == IF skind = "run_loop" /\ via[i] # "base" THEN via[i] ELSE "SL"

\* a comparison that serves equal times last-in first-out
compare_elem_lifo(lhs, rhs) ==
    IF lhs.when = rhs.when THEN lhs.ord < rhs.ord ELSE lhs.when > rhs.when

\* observe_at_queue::compare_elem, rx.h 2252-2262
compare_elem(lhs, rhs) ==
    IF lhs.when = rhs.when THEN lhs.ord > rhs.ord ELSE lhs.when > rhs.when

\* observe_at_queue::top (rx.h 2274-2276): std::priority_queue yields an
\* element that compares less than no other
Tops(q) == {e \in q : \A f \in q : ~compare_elem(e, f)}

\* a readiness test that forgets the clock
is_ready_untimed == queue # {}

\* run_loop::is_ready, rx.h 2331-2338
is_ready == queue # {} /\ \E e \in Tops(queue) : e.when <= now

\* observe_at_queue::push, rx.h 2286-2292: elem_type(value, ordinal++)
\* re: pushed by self(at); from: the observer whose callback deferred it
pushed(i, at, re, from) ==
    queue \cup {[item |-> i, when |-> at, ord |-> ordinal, seq |-> pushes,
                 re |-> re, from |-> from]}

\* a strand that runs every deferred observer in the calling thread
RunsInlineAlways == TRUE

\* detail::immediate runs the deferred observer in the thread that calls
\* defer_at (rx.h 734-751); run_loop::strand queues it (rx.h 2423-2430)
RunsInline == skind = "immediate"

\* a defer_at / call frame: next and again are the locals of the loop (rx.h
\* 735-736, 2375, 2381); when, at and late describe the invocation of next in
\* progress: the time it was asked for, the time it began, and whether stop()
\* on the strand's lifetime had finished by then
CFrame(i, pc, at, again, re, from) ==
    [item |-> i, pc |-> pc, next |-> at, again |-> again, re |-> re, from |-> from,
     when |-> 0, at |-> 0, late |-> FALSE]

\* the frame when the callback begins / when it has returned
Begun(f) ==
    [f EXCEPT !.pc = "in_next", !.again = FALSE, !.when = f.next, !.at = now,
              !.late = stopDone[StrandLife(f.item)]]
Ended(f, pc) == [f EXCEPT !.pc = pc, !.when = 0, !.at = 0, !.late = FALSE]
InCallback(t) == cstack[t] # <<>> /\ cstack[t][1].pc = "in_next"
\* the observer whose callback thread t is running, or "none"
From(t) == IF InCallback(t) THEN cstack[t][1].item ELSE "none"

\* the lifetimes as one value: flags, children, finished teardowns, hung
LNow == [sl |-> sl, kids |-> kids, sd |-> stopDone, hung |-> hung]

\* the unnest thunks of a lifetime that stops (rx.h 215-223): p.erase(c) on
\* every parent p that is still live
Unnest(k, flags, c) == [q \in StrandLifetimes |-> IF flags[q] THEN k[q] ELSE k[q] \ {c}]

\* subscription::stop (rx.h 268-301) of a lifetime that has no children
StopLeaf(s, c) ==
    IF s.sl[c] THEN s
    ELSE [s EXCEPT !.sl[c] = TRUE, !.sd[c] = TRUE, !.kids = Unnest(s.kids, s.sl, c)]

\* subscription::insert(const subscription&), rx.h 199-224.  A stopped child
\* on a live parent runs the unnest thunk at once, which locks the parent's
\* mutex again (rx.h 235) in the thread that holds it: undefined behaviour,
\* ub is what the build makes of it (the thread hangs, or the lock is granted)
sinsert(s, p, c, ub) ==
    IF s.hung THEN s
    ELSE IF s.sl[p] THEN StopLeaf(s, c)
    ELSE IF s.sl[c]
    THEN IF ub = "deadlock"
         THEN [s EXCEPT !.hung = TRUE, !.kids[p] = @ \cup {c}]
         ELSE s
    ELSE [s EXCEPT !.kids[p] = @ \cup {c}]

\* subscription::insert(const subscription&), rx.h 207-223, after the test of
\* the parent's flag: the child is stored whatever the flag has become, and a
\* stopped child runs the unnest thunk at once - erase returns early on a
\* stopped parent (rx.h 227) and locks a live parent's mutex again
nest(s, p, c, ub) ==
    IF s.sl[c] /\ ~s.sl[p]
    THEN IF ub = "deadlock"
         THEN [s EXCEPT !.hung = TRUE, !.kids[p] = @ \cup {c}]
         ELSE s
    ELSE [s EXCEPT !.kids[p] = @ \cup {c}]

\* stop() on l holds l's mutex from the flag to the end of the teardown
\* (rx.h 269-279)
InTeardown(l) == \E k \in 1..Len(stopStack) : stopStack[k].l = l

\* Clock::now() advances
Tick ==
    /\ now < MaxTime
    /\ now' = now + 1
    /\ UNCHANGED <<skind, sl, kids, stopStack, stopDone, queue, ordinal, pushes,
                   deferred, via, cstack, reschedLeft, hung, lastPop>>
    /\ UNCHANGED notStrand

\* thread t calls defer_at(at, i): on the strand (v = "base") or on the
\* strand derived from it with lifetime v.  detail::immediate (rx.h 734-737)
\* starts its loop in the caller; shared_strand_maker (rx.h 842-848) nests
\* out.lifetime in the derived lifetime - a live one is tested (rx.h 200) and
\* locked later (rx.h 207) - and run_loop::strand (rx.h 2423-2430) nests it
\* in the strand's lifetime and pushes the item
Defer(t, i, at, v) ==
    /\ ~hung
    /\ i \notin deferred
    /\ i = "b" => "a" \in deferred
    /\ IF t = "W" THEN skind = "run_loop" /\ InCallback(t)
       ELSE cstack[t] = <<>> \/ InCallback(t)
    /\ skind = "immediate" => v = "base"
    \* the derived strands are alike: the first observer takes the first one
    /\ v = "DL2" => i = "b"
    /\ deferred' = deferred \cup {i}
    /\ via' = [via EXCEPT ![i] = v]
    /\ IF RunsInline
       THEN /\ cstack' = [cstack EXCEPT ![t] = <<CFrame(i, "check", at, TRUE, FALSE, From(t))>> \o @]
            /\ UNCHANGED <<sl, kids, stopDone, hung, queue, ordinal, pushes>>
       ELSE IF v # "base" /\ ~sl[v]
       THEN /\ cstack' = [cstack EXCEPT ![t] = <<CFrame(i, "insert", at, FALSE, FALSE, From(t))>> \o @]
            /\ UNCHANGED <<sl, kids, stopDone, hung, queue, ordinal, pushes>>
       ELSE \E ub \in {"deadlock", "proceed"} :
              LET s1 == IF v # "base" THEN sinsert(LNow, v, i, ub) ELSE LNow
                  s2 == sinsert(s1, "SL", i, ub)
              IN  /\ sl' = s2.sl
                  /\ kids' = s2.kids
                  /\ stopDone' = s2.sd
                  /\ hung' = s2.hung
                  /\ IF s2.hung
                     THEN UNCHANGED <<queue, ordinal, pushes>>
                     ELSE /\ queue' = pushed(i, at, FALSE, From(t))
                          /\ ordinal' = ordinal + 1
                          /\ pushes' = pushes + 1
                  /\ UNCHANGED cstack
    /\ UNCHANGED <<skind, now, stopStack, reschedLeft, lastPop>>
    /\ UNCHANGED notStrand

\* shared_strand_maker's execute, rx.h 843-847, once the derived lifetime's
\* mutex is free: out.lifetime is stored in it, then st.defer_at(at, o)
DeferInsert(t) ==
    /\ ~hung
    /\ cstack[t] # <<>>
    /\ cstack[t][1].pc = "insert"
    /\ LET f == cstack[t][1] IN
         /\ ~InTeardown(via[f.item])
         /\ \E ub \in {"deadlock", "proceed"} :
              LET s1 == nest(LNow, via[f.item], f.item, ub)
                  s2 == sinsert(s1, "SL", f.item, ub)
              IN  /\ sl' = s2.sl
                  /\ kids' = s2.kids
                  /\ stopDone' = s2.sd
                  /\ hung' = s2.hung
                  /\ IF s2.hung
                     THEN UNCHANGED <<queue, ordinal, pushes>>
                     ELSE /\ queue' = pushed(f.item, f.next, FALSE, f.from)
                          /\ ordinal' = ordinal + 1
                          /\ pushes' = pushes + 1
    /\ cstack' = [cstack EXCEPT ![t] = Tail(@)]
    /\ UNCHANGED <<skind, now, stopStack, deferred, via, reschedLeft, lastPop>>
    /\ UNCHANGED notStrand

\* no element
NoElem == [item |-> "none", when |-> 0, ord |-> 0, seq |-> 0, re |-> FALSE, from |-> "none"]

\* run_loop::step, rx.h 2397-2403: while the run-loop's lifetime is live and
\* the top is due, pop it and release the lock for the call
WorkerPop ==
    /\ skind = "run_loop"
    /\ ~hung
    /\ cstack["W"] = <<>>
    /\ ~sl["RL"]
    /\ is_ready
    /\ \E e \in Tops(queue) :
         /\ queue' = queue \ {e}
         /\ lastPop' = [e |-> e, rest |-> queue \ {e}]
         /\ cstack' = [cstack EXCEPT !["W"] = <<CFrame(e.item, "call", e.when, FALSE, e.re, e.from)>>]
    /\ UNCHANGED <<skind, now, sl, kids, stopStack, stopDone, ordinal, pushes,
                   deferred, via, reschedLeft, hung>>
    /\ UNCHANGED notStrand

\* run_loop::call, rx.h 2375-2376: next.what.next(self); the observer's
\* enforce (rx.h 475) runs the callback unless out.lifetime is stopped
WorkerCall ==
    /\ skind = "run_loop"
    /\ ~hung
    /\ cstack["W"] # <<>>
    /\ cstack["W"][1].pc = "call"
    /\ LET f == cstack["W"][1] IN
         cstack' = [cstack EXCEPT !["W"][1] =
                      IF sl[f.item] THEN [f EXCEPT !.pc = "after"] ELSE Begun(f)]
    /\ UNCHANGED <<skind, now, sl, kids, stopStack, stopDone, queue, ordinal, pushes,
                   deferred, via, reschedLeft, hung, lastPop>>
    /\ UNCHANGED notStrand

\* detail::immediate, rx.h 738: the loop condition
ImmCheck(t) ==
    /\ ~hung
    /\ cstack[t] # <<>>
    /\ cstack[t][1].pc = "check"
    /\ LET f == cstack[t][1] IN
         cstack' = [cstack EXCEPT ![t][1].pc =
                      IF f.again /\ ~sl["SL"] /\ ~sl[f.item] THEN "sleep" ELSE "complete"]
    /\ UNCHANGED <<skind, now, sl, kids, stopStack, stopDone, queue, ordinal, pushes,
                   deferred, via, reschedLeft, hung, lastPop>>
    /\ UNCHANGED notStrand

\* detail::immediate, rx.h 740-747: sleep_until(next); stop = true; out.next(self)
ImmSleep(t) ==
    /\ ~hung
    /\ cstack[t] # <<>>
    /\ cstack[t][1].pc = "sleep"
    /\ now >= cstack[t][1].next
    /\ LET f == cstack[t][1] IN
         cstack' = [cstack EXCEPT ![t][1] =
                      IF sl[f.item] THEN [f EXCEPT !.pc = "check", !.again = FALSE]
                      ELSE Begun(f)]
    /\ UNCHANGED <<skind, now, sl, kids, stopStack, stopDone, queue, ordinal, pushes,
                   deferred, via, reschedLeft, hung, lastPop>>
    /\ UNCHANGED notStrand

\* the running callback calls self(at): detail::immediate (rx.h 743-747) sets
\* stop = false and next = at; run_loop::call (rx.h 2376-2384) pushes the item
\* again unless the run-loop's or the observer's lifetime is stopped
Reschedule(t, at) ==
    /\ ~hung
    /\ InCallback(t)
    /\ ~cstack[t][1].again
    /\ reschedLeft > 0
    /\ reschedLeft' = reschedLeft - 1
    /\ LET f == cstack[t][1] IN
         IF RunsInline
         THEN /\ cstack' = [cstack EXCEPT ![t][1].again = TRUE, ![t][1].next = at,
                                         ![t][1].re = TRUE]
              /\ UNCHANGED <<queue, ordinal, pushes>>
         ELSE IF sl["RL"] \/ sl[f.item]
         THEN UNCHANGED <<cstack, queue, ordinal, pushes>>
         ELSE /\ cstack' = [cstack EXCEPT ![t][1].again = TRUE, ![t][1].next = at]
              /\ queue' = pushed(f.item, at, TRUE, f.from)
              /\ ordinal' = ordinal + 1
              /\ pushes' = pushes + 1
    /\ UNCHANGED <<skind, now, sl, kids, stopStack, stopDone, deferred, via, hung,
                   lastPop>>
    /\ UNCHANGED notStrand

\* the callback returns to the strand
CallbackReturn(t) ==
    /\ ~hung
    /\ InCallback(t)
    /\ cstack' = [cstack EXCEPT ![t][1] = Ended(@, IF RunsInline THEN "check" ELSE "after")]
    /\ UNCHANGED <<skind, now, sl, kids, stopStack, stopDone, queue, ordinal, pushes,
                   deferred, via, reschedLeft, hung, lastPop>>
    /\ UNCHANGED notStrand

\* a complete that does nothing
completed_never(i) == LNow
\* observer::complete (rx.h 625-628) on the deferred observer: end() runs the
\* complete callback and stops out.lifetime unless it is stopped already
completed(i) == StopLeaf(LNow, i)

\* run_loop::call, rx.h 2385-2388: if (complete) next.what.complete()
WorkerComplete ==
    /\ skind = "run_loop"
    /\ ~hung
    /\ cstack["W"] # <<>>
    /\ cstack["W"][1].pc = "after"
    /\ LET f == cstack["W"][1]
           s == IF f.again THEN LNow ELSE completed(f.item)
       IN  /\ sl' = s.sl
           /\ kids' = s.kids
           /\ stopDone' = s.sd
    /\ cstack' = [cstack EXCEPT !["W"] = Tail(@)]
    /\ lastPop' = [e |-> NoElem, rest |-> {}]
    /\ UNCHANGED <<skind, now, stopStack, queue, ordinal, pushes, deferred, via,
                   reschedLeft, hung>>
    /\ UNCHANGED notStrand

\* detail::immediate, rx.h 750: out.complete()
ImmComplete(t) ==
    /\ ~hung
    /\ cstack[t] # <<>>
    /\ cstack[t][1].pc = "complete"
    /\ LET s == completed(cstack[t][1].item)
       IN  /\ sl' = s.sl
           /\ kids' = s.kids
           /\ stopDone' = s.sd
    /\ cstack' = [cstack EXCEPT ![t] = Tail(@)]
    /\ UNCHANGED <<skind, now, stopStack, queue, ordinal, pushes, deferred, via,
                   reschedLeft, hung, lastPop>>
    /\ UNCHANGED notStrand

\* the lifetimes some thread may call stop() on
Stoppable ==
    IF skind = "immediate" THEN {"SL"} \cup Items
    ELSE {"SL"} \cup DerivedLifetimes \cup Items

\* subscription::stop, rx.h 269-279: the flag is set and the teardown starts;
\* a lifetime without children has only its stoppers to run
StopCall(l) ==
    /\ ~hung
    /\ l \in Stoppable
    /\ stopStack = <<>>
    /\ ~sl[l]
    /\ IF kids[l] = {}
       THEN LET s == StopLeaf(LNow, l)
            IN  /\ sl' = s.sl
                /\ kids' = s.kids
                /\ stopDone' = s.sd
                /\ UNCHANGED stopStack
       ELSE /\ sl' = [sl EXCEPT ![l] = TRUE]
            /\ stopStack' = <<[l |-> l, todo |-> kids[l]]>>
            /\ kids' = [kids EXCEPT ![l] = {}]
            /\ UNCHANGED stopDone
    /\ UNCHANGED <<skind, now, queue, ordinal, pushes, deferred, via, cstack,
                   reschedLeft, hung, lastPop>>
    /\ UNCHANGED notStrand

\* subscription::stop, rx.h 282-300: the teardown stops the children one by
\* one, each with its own teardown, then runs the stoppers and notifies
StopStep ==
    /\ ~hung
    /\ stopStack # <<>>
    /\ LET f == stopStack[1] IN
         IF f.todo = {}
         THEN /\ stopDone' = [stopDone EXCEPT ![f.l] = TRUE]
              /\ kids' = Unnest(kids, sl, f.l)
              /\ stopStack' = Tail(stopStack)
              /\ UNCHANGED sl
         ELSE \E c \in f.todo :
                IF sl[c] \/ kids[c] = {}
                THEN LET s == StopLeaf(LNow, c)
                     IN  /\ sl' = s.sl
                         /\ kids' = s.kids
                         /\ stopDone' = s.sd
                         /\ stopStack' = <<[f EXCEPT !.todo = @ \ {c}]>> \o Tail(stopStack)
                ELSE /\ sl' = [sl EXCEPT ![c] = TRUE]
                     /\ stopStack' = <<[l |-> c, todo |-> kids[c]], [f EXCEPT !.todo = @ \ {c}]>>
                                       \o Tail(stopStack)
                     /\ kids' = [kids EXCEPT ![c] = {}]
                     /\ UNCHANGED stopDone
    /\ UNCHANGED <<skind, now, queue, ordinal, pushes, deferred, via, cstack,
                   reschedLeft, hung, lastPop>>
    /\ UNCHANGED notStrand

\* make_strand with detail::immediate (rx.h 941-945), or make_new_thread
\* (rx.h 2479-2487) wrapped by make_shared_make_strand (rx.h 860-864): the
\* run-loop's lifetime and the derived strands' lifetimes are nested in SL
StrandSetup(k) ==
    /\ skind = k
    /\ now = 0
    /\ sl = [l \in StrandLifetimes |-> FALSE]
    /\ kids = [l \in StrandLifetimes |->
                 IF l = "SL" /\ k = "run_loop" THEN {"RL"} \cup DerivedLifetimes ELSE {}]
    /\ stopStack = <<>>
    /\ stopDone = [l \in StrandLifetimes |-> FALSE]
    /\ queue = {}
    /\ ordinal = 0
    /\ pushes = 0
    /\ deferred = {}
    /\ via = [i \in Items |-> "base"]
    /\ cstack = [t \in SThreads |-> <<>>]
    /\ reschedLeft = MaxResched
    /\ hung = FALSE
    /\ lastPop = [e |-> NoElem, rest |-> {}]

StrandInit == \E k \in {"immediate", "run_loop"} : StrandSetup(k)

\* no strand is in use
StrandOff == StrandSetup("immediate")

StrandNext ==
    \/ Tick
    \/ \E t \in SThreads, i \in Items, at \in Times, v \in {"base"} \cup DerivedLifetimes :
         Defer(t, i, at, v)
    \/ \E t \in SThreads : DeferInsert(t)
    \/ WorkerPop
    \/ WorkerCall
    \/ \E t \in UserThreads : ImmCheck(t)
    \/ \E t \in UserThreads : ImmSleep(t)
    \/ \E t \in SThreads, at \in Times : Reschedule(t, at)
    \/ \E t \in SThreads : CallbackReturn(t)
    \/ WorkerComplete
    \/ \E t \in UserThreads : ImmComplete(t)
    \/ \E l \in StrandLifetimes : StopCall(l)
    \/ StopStep

(***************************************************************************)
(* Part 4 - merge (src/rx.h 1984-2052)                                     *)
(***************************************************************************)
\* inner observables the outer source can emit
NInner == 2

Inners == 1..NInner
\* sourcecontext.lifetime (rx.h 1997); the lifetime of the nestedcontext made
\* for inner observable i (rx.h 2028) is numbered i
sourcecontext == 0
InputLifetimes == {sourcecontext} \cup Inners
\* the thread a source emits on: the outer source on thread 0, an inner
\* observable with a thread of its own (intervals on make_new_thread) on thread i
Emitter(l) == l
\* the worker of the thread strand that make_shared_make_strand creates once
\* (rx.h 860-864, 2478-2487) and that every context of merge shares
MergeWorker == NInner + 1
MergeThreads == InputLifetimes \cup {MergeWorker}

\* a call in progress, or waiting on the shared strand's queue
Call(pc, l) == [pc |-> pc, l |-> l]
NoCall == Call("idle", sourcecontext)
Return(t) == [mframe EXCEPT ![t] = NoCall]

\* rx.h 1999-2000: pending.get().insert(sourcecontext.lifetime)
PendingStart == {sourcecontext}

\* observe_on(sharedmakestrand) (rx.h 1820-1852) and the teardown thunk that
\* context binds with bind_defer (rx.h 1146-1150) hand the call to the shared
\* strand: the thread strand pushes it for its worker and returns, the
\* immediate strand (rx.h 734-751, and observe_on's fast path 1855-1862) runs
\* it at once in the calling thread
Post(t, c) ==
    IF mergeKind = "immediate"
    THEN /\ mframe' = [mframe EXCEPT ![t] = c]
         /\ mq' = mq
    ELSE /\ mframe' = Return(t)
         /\ mq' = Append(mq, c)

\* the outer source emits its next inner observable (ints: r.next(i), rx.h
\* 1811); through transform the call passes enforce on the lifetime of
\* transform's observer, which is the destination's ctx.lifetime (rx.h 1918-1920)
OuterNext ==
    /\ sent < outerLen
    /\ mframe[Emitter(sourcecontext)].pc = "idle"
    /\ sent' = sent + 1
    /\ IF lifter # "none" /\ destStopped
       THEN UNCHANGED <<mframe, mq>>
       ELSE Post(Emitter(sourcecontext), Call("next", sent + 1))
    /\ UNCHANGED <<mergeKind, async, outerLen, finished, started, pending,
                   mstopped, destStopped, completes, lifter, emitted, observed>>
    /\ UNCHANGED merr
    /\ UNCHANGED notMerge

\* the outer source completes after its last value (ints: r.complete(), rx.h
\* 1814); transform's observer forwards the complete with detail::pass (rx.h
\* 536-545, 677-684) unless its lifetime is stopped (end, rx.h 479-486)
OuterComplete ==
    /\ sent = outerLen
    /\ sourcecontext \notin finished
    /\ mframe[Emitter(sourcecontext)].pc = "idle"
    /\ finished' = finished \cup {sourcecontext}
    /\ IF lifter # "none" /\ destStopped
       THEN /\ lifter' = "stopped"
            /\ UNCHANGED <<mframe, mq>>
       ELSE /\ Post(Emitter(sourcecontext), Call("complete", sourcecontext))
            /\ UNCHANGED lifter
    /\ UNCHANGED <<mergeKind, async, outerLen, sent, started, pending,
                   mstopped, destStopped, completes, emitted, observed>>
    /\ UNCHANGED merr
    /\ UNCHANGED notMerge

\* complete of transform's observer, after the delegatee's complete has
\* returned (observer::complete 652-655, end 481-484): lifetime.stop() on
\* ctx.lifetime, the lifetime of the destination's observer; stop (rx.h
\* 268-301) returns at once on a stopped lifetime and else sets the flag and
\* hands the teardown to the destination context's strand
LifterStop ==
    /\ lifter = "live"
    /\ sourcecontext \in finished
    /\ mframe[Emitter(sourcecontext)].pc = "idle"
    /\ lifter' = "stopped"
    /\ IF destStopped
       THEN UNCHANGED <<destStopped, mframe, mq>>
       ELSE /\ destStopped' = TRUE
            /\ Post(Emitter(sourcecontext), Call("stop_inputs", sourcecontext))
    /\ UNCHANGED <<mergeKind, async, outerLen, sent, finished, started, pending,
                   mstopped, completes, emitted, observed>>
    /\ UNCHANGED merr
    /\ UNCHANGED notMerge

\* an inner observable that emits on its own thread emits its value, while the
\* lifetime it was started with is live
InnerNext(i) ==
    /\ i \in started \cap async
    /\ i \notin emitted
    /\ ~mstopped[i]
    /\ mframe[Emitter(i)].pc = "idle"
    /\ emitted' = emitted \cup {i}
    /\ Post(Emitter(i), Call("value", i))
    /\ UNCHANGED <<mergeKind, async, outerLen, sent, finished, started, pending,
                   mstopped, destStopped, completes, lifter, observed>>
    /\ UNCHANGED merr
    /\ UNCHANGED notMerge

\* an inner observable that emits on its own thread completes
InnerComplete(i) ==
    /\ i \in started \cap async
    /\ i \notin finished
    /\ i \in emitted
    /\ mframe[Emitter(i)].pc = "idle"
    /\ finished' = finished \cup {i}
    /\ Post(Emitter(i), Call("complete", i))
    /\ UNCHANGED <<mergeKind, async, outerLen, sent, started, pending,
                   mstopped, destStopped, completes, lifter, emitted, observed>>
    /\ UNCHANGED merr
    /\ UNCHANGED notMerge

\* run_loop::step and call (rx.h 2368-2407) on the shared thread strand: the
\* worker takes the first call of the queue; every call is deferred at now(),
\* so compare_elem serves them in the order of their ordinals
SharedStep ==
    /\ mframe[MergeWorker].pc = "idle"
    /\ mq # <<>>
    /\ mframe' = [mframe EXCEPT ![MergeWorker] = Head(mq)]
    /\ mq' = Tail(mq)
    /\ UNCHANGED <<mergeKind, async, outerLen, sent, finished, started, pending,
                   mstopped, destStopped, completes, lifter, emitted, observed>>
    /\ UNCHANGED merr
    /\ UNCHANGED notMerge

\* next of the observer merge returns (rx.h 2026-2048), behind enforce (rx.h
\* 473-477): a nestedcontext, its lifetime into pending, its stop-hook, and the
\* inner observable started; an inner observable like ints emits its value and
\* completes inside start, before next returns (rx.h 1810-1814)
MergeOnNext(t) ==
    /\ mframe[t].pc = "next"
    /\ LET i == mframe[t].l IN
       IF mstopped[sourcecontext]
       THEN /\ mframe' = Return(t)
            /\ UNCHANGED <<pending, started, finished, emitted, mq>>
       ELSE /\ pending' = pending \cup {i}
            /\ started' = started \cup {i}
            /\ IF i \in async
               THEN /\ mframe' = Return(t)
                    /\ UNCHANGED <<finished, emitted, mq>>
               ELSE /\ finished' = finished \cup {i}
                    /\ emitted' = emitted \cup {i}
                    /\ IF mergeKind = "immediate"
                       THEN /\ mframe' = [mframe EXCEPT ![t] = Call("value", i)]
                            /\ mq' = mq
                       ELSE /\ mframe' = Return(t)
                            /\ mq' = mq \o <<Call("value", i), Call("complete", i)>>
    /\ UNCHANGED <<mergeKind, async, outerLen, sent, mstopped, destStopped,
                   completes, lifter, observed>>
    /\ UNCHANGED merr
    /\ UNCHANGED notMerge

\* where a thread goes on when the next of inner observable i has returned: an
\* inner observable like ints that ran the call inline calls complete next
\* (rx.h 1814)
AfterValue(t, i) ==
    IF mergeKind = "immediate" /\ i \notin async
    THEN [mframe EXCEPT ![t] = Call("complete", i)]
    ELSE Return(t)

\* next of the observer of inner observable i (rx.h 2039-2042), behind enforce
\* (rx.h 473-477) on the nestedcontext's lifetime: r.next(v)
InnerOnNext(t) ==
    /\ mframe[t].pc = "value"
    /\ LET i == mframe[t].l IN
       mframe' = IF mstopped[i]
                 THEN AfterValue(t, i)
                 ELSE [mframe EXCEPT ![t] = Call("r_next", i)]
    /\ UNCHANGED <<mergeKind, async, outerLen, sent, finished, started, pending,
                   mstopped, destStopped, completes, mq, lifter, emitted,
                   observed>>
    /\ UNCHANGED merr
    /\ UNCHANGED notMerge

\* r.next(v) on the destination's observer (rx.h 615-618): enforce (rx.h
\* 473-477) tests the lifetime before the next callback runs
DestNext(t) ==
    /\ mframe[t].pc = "r_next"
    /\ LET i == mframe[t].l IN
       /\ observed' = IF destStopped THEN observed
                      ELSE [observed EXCEPT ![i] = @ + 1]
       /\ mframe' = AfterValue(t, i)
    /\ UNCHANGED <<mergeKind, async, outerLen, sent, finished, started, pending,
                   mstopped, destStopped, completes, mq, lifter, emitted>>
    /\ UNCHANGED merr
    /\ UNCHANGED notMerge

\* complete of the observer of an input (rx.h 2025 and 2042 with detail::skip,
\* observer::complete 652-655, end 479-486): nothing is forwarded and the
\* input's lifetime is stopped; subscription::stop (rx.h 268-301) sets the flag
\* and hands the teardown, which runs the stop-hook, to the context's strand
ObserverComplete(t) ==
    /\ mframe[t].pc = "complete"
    /\ LET l == mframe[t].l IN
       IF mstopped[l]
       THEN /\ mframe' = Return(t)
            /\ UNCHANGED <<mstopped, mq>>
       ELSE /\ mstopped' = [mstopped EXCEPT ![l] = TRUE]
            /\ Post(t, Call("erase", l))
    /\ UNCHANGED <<mergeKind, async, outerLen, sent, finished, started, pending,
                   destStopped, completes, lifter, emitted, observed>>
    /\ UNCHANGED merr
    /\ UNCHANGED notMerge

\* the stop-hook of an input lifetime (rx.h 2017 and 2031): pending.get().erase(l)
HookErase(t) ==
    /\ mframe[t].pc = "erase"
    /\ pending' = pending \ {mframe[t].l}
    /\ mframe' = [mframe EXCEPT ![t] = Call("empty", mframe[t].l)]
    /\ UNCHANGED <<mergeKind, async, outerLen, sent, finished, started,
                   mstopped, destStopped, completes, mq, lifter, emitted,
                   observed>>
    /\ UNCHANGED merr
    /\ UNCHANGED notMerge

\* the stop-hook (rx.h 2018-2021 and 2032-2035): if (pending.get().empty())
\* r.complete()
HookEmpty(t) ==
    /\ mframe[t].pc = "empty"
    /\ mframe' = IF pending = {}
                 THEN [mframe EXCEPT ![t] = Call("r_complete", mframe[t].l)]
                 ELSE Return(t)
    /\ UNCHANGED <<mergeKind, async, outerLen, sent, finished, started, pending,
                   mstopped, destStopped, completes, mq, lifter, emitted,
                   observed>>
    /\ UNCHANGED merr
    /\ UNCHANGED notMerge

\* r.complete() on the destination's observer (rx.h 625-628): end (rx.h
\* 479-486) tests the lifetime
DestComplete(t) ==
    /\ mframe[t].pc = "r_complete"
    /\ mframe' = IF destStopped
                 THEN Return(t)
                 ELSE [mframe EXCEPT ![t] = Call("r_callback", mframe[t].l)]
    /\ UNCHANGED <<mergeKind, async, outerLen, sent, finished, started, pending,
                   mstopped, destStopped, completes, mq, lifter, emitted,
                   observed>>
    /\ UNCHANGED merr
    /\ UNCHANGED notMerge

\* end (rx.h 481-484): the destination's complete callback runs, then
\* lifetime.stop(), which returns at once on a stopped lifetime (rx.h 269-271)
\* and else sets the flag and hands the teardown to the destination's strand
DestCallback(t) ==
    /\ mframe[t].pc = "r_callback"
    /\ completes' = completes + 1
    /\ IF destStopped
       THEN /\ mframe' = Return(t)
            /\ UNCHANGED <<destStopped, mq>>
       ELSE /\ destStopped' = TRUE
            /\ Post(t, Call("stop_inputs", mframe[t].l))
    /\ UNCHANGED <<mergeKind, async, outerLen, sent, finished, started, pending,
                   mstopped, lifter, emitted, observed>>
    /\ UNCHANGED merr
    /\ UNCHANGED notMerge

\* the stop-hook of the destination's lifetime (rx.h 2002-2010): every lifetime
\* still in pending is stopped and joined, and pending is cleared
StopInputs(t) ==
    /\ mframe[t].pc = "stop_inputs"
    /\ mstopped' = [l \in InputLifetimes |-> mstopped[l] \/ l \in pending]
    /\ pending' = {}
    /\ mframe' = Return(t)
    /\ UNCHANGED <<mergeKind, async, outerLen, sent, finished, started,
                   destStopped, completes, mq, lifter, emitted, observed>>
    /\ UNCHANGED merr
    /\ UNCHANGED notMerge

\* an inner observable that emits on its own thread ends with an error
\* instead of a complete, while the lifetime it was started with is live
InnerError(i) ==
    /\ i \in started \cap async
    /\ i \notin finished
    /\ ~mstopped[i]
    /\ mframe[Emitter(i)].pc = "idle"
    /\ finished' = finished \cup {i}
    /\ merr' = [merr EXCEPT !.raised = @ \cup {i}]
    /\ Post(Emitter(i), Call("error", i))
    /\ UNCHANGED <<mergeKind, async, outerLen, sent, started, pending,
                   mstopped, destStopped, completes, lifter, emitted, observed>>
    /\ UNCHANGED notMerge

\* error of the observer of inner observable i (rx.h 2038-2042 with
\* detail::pass, observer::error 647-651): end (rx.h 479-486) tests the
\* nestedcontext's lifetime, pass (rx.h 514-524) calls r.error(err)
ObserverError(t) ==
    /\ mframe[t].pc = "error"
    /\ mframe' = IF mstopped[mframe[t].l]
                 THEN Return(t)
                 ELSE [mframe EXCEPT ![t] = Call("r_error", mframe[t].l)]
    /\ UNCHANGED <<mergeKind, async, outerLen, sent, finished, started, pending,
                   mstopped, destStopped, completes, mq, lifter, emitted,
                   observed, merr>>
    /\ UNCHANGED notMerge

\* r.error(err) on the destination's observer (rx.h 620-624): end (rx.h
\* 479-486) tests the destination's lifetime; when it is stopped nothing runs
\* and the inner observer goes on to stop its own lifetime
DestError(t) ==
    /\ mframe[t].pc = "r_error"
    /\ mframe' = [mframe EXCEPT ![t] =
                     Call(IF destStopped THEN "error_stop" ELSE "r_errback", mframe[t].l)]
    /\ UNCHANGED <<mergeKind, async, outerLen, sent, finished, started, pending,
                   mstopped, destStopped, completes, mq, lifter, emitted,
                   observed, merr>>
    /\ UNCHANGED notMerge

\* end (rx.h 481-484): the destination's error callback runs, then
\* lifetime.stop() on the destination's lifetime hands the teardown (the
\* stop-hook of rx.h 2002-2010) to the destination's strand. The immediate
\* strand runs it at once, and it stops the erring inner's lifetime with the
\* others; the thread strand queues it, and the inner observer's own
\* lifetime.stop() (end, rx.h 483) queues that lifetime's teardown behind it
DestErrorCallback(t) ==
    /\ mframe[t].pc = "r_errback"
    /\ merr' = [merr EXCEPT !.n = @ + 1]
    /\ LET i == mframe[t].l IN
       IF destStopped
       THEN /\ mframe' = [mframe EXCEPT ![t] = Call("error_stop", i)]
            /\ UNCHANGED <<destStopped, mstopped, mq>>
       ELSE /\ destStopped' = TRUE
            /\ IF mergeKind = "immediate"
               THEN /\ mframe' = [mframe EXCEPT ![t] = Call("stop_inputs", i)]
                    /\ UNCHANGED <<mstopped, mq>>
               ELSE /\ mframe' = Return(t)
                    /\ mstopped' = [mstopped EXCEPT ![i] = TRUE]
                    /\ mq' = mq \o (<<Call("stop_inputs", i)>> \o
                                     IF mstopped[i] THEN <<>> ELSE <<Call("erase", i)>>)
    /\ UNCHANGED <<mergeKind, async, outerLen, sent, finished, started, pending,
                   completes, lifter, emitted, observed>>
    /\ UNCHANGED notMerge

\* lifetime.stop() of the inner observer after an error that the destination
\* did not take (end, rx.h 483; stop, rx.h 268-301)
ObserverErrorStop(t) ==
    /\ mframe[t].pc = "error_stop"
    /\ LET l == mframe[t].l IN
       IF mstopped[l]
       THEN /\ mframe' = Return(t)
            /\ UNCHANGED <<mstopped, mq>>
       ELSE /\ mstopped' = [mstopped EXCEPT ![l] = TRUE]
            /\ Post(t, Call("erase", l))
    /\ UNCHANGED <<mergeKind, async, outerLen, sent, finished, started, pending,
                   destStopped, completes, lifter, emitted, observed, merr>>
    /\ UNCHANGED notMerge

\* merge(S) subscribed (rx.h 1994-2021): nothing emitted, no call in flight;
\* lf tells whether the outer source reaches merge through transform (rx.h
\* 1912-1924, 2054-2057)
MergeSetup(k, a, n, lf) ==
    /\ mergeKind = k
    /\ async = a
    /\ outerLen = n
    /\ lifter = lf
    /\ sent = 0
    /\ finished = {}
    /\ started = {}
    /\ emitted = {}
    /\ observed = [i \in Inners |-> 0]
    /\ pending = PendingStart
    /\ mstopped = [l \in InputLifetimes |-> FALSE]
    /\ destStopped = FALSE
    /\ completes = 0
    /\ mq = <<>>
    /\ mframe = [t \in MergeThreads |-> NoCall]
    /\ merr = [raised |-> {}, n |-> 0]

MergeInit ==
    \E k \in {"immediate", "thread"}, n \in 0..NInner, lf \in {"none", "live"} :
        \E a \in SUBSET (1..n) : MergeSetup(k, a, n, lf)

\* merge is not in use
MergeOff == MergeSetup("immediate", {}, 0, "none")

\* the steps of the code that is running: the threads keep executing
MergeRun ==
    \/ SharedStep
    \/ LifterStop
    \/ \E t \in MergeThreads : MergeOnNext(t)
    \/ \E t \in MergeThreads : InnerOnNext(t)
    \/ \E t \in MergeThreads : DestNext(t)
    \/ \E t \in MergeThreads : ObserverComplete(t)
    \/ \E t \in MergeThreads : HookErase(t)
    \/ \E t \in MergeThreads : HookEmpty(t)
    \/ \E t \in MergeThreads : DestComplete(t)
    \/ \E t \in MergeThreads : DestCallback(t)
    \/ \E t \in MergeThreads : StopInputs(t)
    \/ \E t \in MergeThreads : ObserverError(t)
    \/ \E t \in MergeThreads : DestError(t)
    \/ \E t \in MergeThreads : DestErrorCallback(t)
    \/ \E t \in MergeThreads : ObserverErrorStop(t)

MergeNext ==
    \/ OuterNext
    \/ OuterComplete
    \/ \E i \in Inners : InnerNext(i)
    \/ \E i \in Inners : InnerComplete(i)
    \/ \E i \in Inners : InnerError(i)
    \/ MergeRun

(***************************************************************************)
(* Part 5 - ints and take (src/observables/rx_ints.h, src/rx.h 1960-1982)  *)
(***************************************************************************)
\* the integer type of ints' loop variable holds 0 .. IntMod-1 and wraps
IntMod == 4
\* take(n) with n in 0 .. MaxTake
MaxTake == 2
\* a source other than ints emits up to MaxPush values
MaxPush == 3
\* ints is followed through an overflow of its loop variable while it has
\* emitted fewer than MaxEmit values
MaxEmit == 6

Ints == 0..(IntMod - 1)
\* no take in the pipeline
NoTake == -1

\* if (i == last) break (rx_ints.h 15)
last_passed(i, last) == (i + 1) % IntMod = last
last_reached(i, last) == i = last

\* remaining.get()-- == 0 (rx.h 1973), on the value before the decrement
remaining_is_one(rem) == rem = 1
remaining_is_zero(rem) == rem = 0

\* next of the subscriber's observer (rx.h 615-618) behind enforce (rx.h
\* 473-477): the next callback sees v
subscriber_next(p, v) ==
    IF p.stopped THEN p ELSE [p EXCEPT !.seen = Append(@, v)]

\* complete of the subscriber's observer (rx.h 625-628) with end (rx.h
\* 479-486): the complete callback, then lifetime.stop()
subscriber_complete(p) ==
    IF p.stopped THEN p
    ELSE [p EXCEPT !.completes = @ + 1, !.stopped = TRUE]

\* next of take's observer (rx.h 1971-1978), made with ctx.lifetime and so
\* behind enforce on the subscriber's lifetime
take_next(p, v) ==
    IF p.stopped THEN p
    ELSE LET q == [p EXCEPT !.remaining = @ - 1] IN
         IF remaining_is_zero(p.remaining)
         THEN subscriber_complete(q)
         ELSE subscriber_next(q, v)

\* complete of take's observer: detail::pass (rx.h 536-545) forwards it, then
\* end stops ctx.lifetime (rx.h 652-655, 479-486)
take_complete(p) ==
    IF p.stopped THEN p
    ELSE [subscriber_complete(p) EXCEPT !.stopped = TRUE]

\* the observer the source holds: scrb.create(ctx) (rx_ints.h 11, rx.h 1969)
r_next(p, v) ==
    LET q == [p EXCEPT !.out = Append(@, v)] IN
    IF p.take = NoTake THEN subscriber_next(q, v) ELSE take_next(q, v)
r_complete(p) ==
    LET q == [p EXCEPT !.ended = TRUE] IN
    IF p.take = NoTake THEN subscriber_complete(q) ELSE take_complete(q)

\* one round of ints' loop (rx_ints.h 13-16): the lifetime is live, r.next(i),
\* then break at last or ++i
IntsNext ==
    /\ pipe.src = "ints"
    /\ pipe.pc = "loop"
    /\ ~pipe.stopped
    /\ pipe' = [r_next(pipe, pipe.i) EXCEPT
                   !.pc = IF last_reached(pipe.i, pipe.last) THEN "complete" ELSE "loop",
                   !.i = IF last_reached(pipe.i, pipe.last) THEN pipe.i
                         ELSE (pipe.i + 1) % IntMod]
    /\ UNCHANGED notPipe

\* the loop ends because r.lifetime.is_stopped() (rx_ints.h 13)
IntsExit ==
    /\ pipe.src = "ints"
    /\ pipe.pc = "loop"
    /\ pipe.stopped
    /\ pipe' = [pipe EXCEPT !.pc = "complete"]
    /\ UNCHANGED notPipe

\* r.complete(); return ctx.lifetime (rx_ints.h 17-18)
IntsComplete ==
    /\ pipe.src = "ints"
    /\ pipe.pc = "complete"
    /\ pipe' = [r_complete(pipe) EXCEPT !.pc = "returned"]
    /\ UNCHANGED notPipe

\* r.next(i) with i the largest value of the loop variable's type and not
\* last, then ++i (rx_ints.h 13-15): the increment of a signed integer
\* overflows, which is undefined; besides the wrap-around of IntsNext the
\* build may leave any value in i, or trap
IntsOverflow ==
    /\ pipe.src = "ints"
    /\ pipe.pc = "loop"
    /\ ~pipe.stopped
    /\ pipe.i = IntMod - 1
    /\ ~last_reached(pipe.i, pipe.last)
    /\ Len(pipe.out) < MaxEmit
    /\ \/ \E j \in Ints : pipe' = [r_next(pipe, pipe.i) EXCEPT !.i = j]
       \/ pipe' = [r_next(pipe, pipe.i) EXCEPT !.pc = "trapped"]
    /\ UNCHANGED notPipe

\* a source that does not look at the lifetime emits its next value
PushNext ==
    /\ pipe.src = "push"
    /\ ~pipe.ended
    /\ Len(pipe.out) < pipe.last
    /\ pipe' = r_next(pipe, Len(pipe.out) + 1)
    /\ UNCHANGED notPipe

\* ... and completes after its last value, if it is one that completes
PushComplete ==
    /\ pipe.src = "push"
    /\ pipe.ends
    /\ ~pipe.ended
    /\ Len(pipe.out) = pipe.last
    /\ pipe' = [r_complete(pipe) EXCEPT !.pc = "returned"]
    /\ UNCHANGED notPipe

\* the pipeline after start has built the observers (rx.h 1388-1401,
\* 1449-1466, 1968-1970): remaining holds n
PipeSetup(src, first, last, ends, n) ==
    pipe = [src |-> src, first |-> first, last |-> last, ends |-> ends,
            take |-> n, remaining |-> n, i |-> first, pc |-> "loop",
            out |-> <<>>, ended |-> FALSE, seen |-> <<>>, completes |-> 0,
            stopped |-> FALSE]

PipeInit ==
    \E n \in {NoTake} \cup (0..MaxTake) :
        \/ \E first \in Ints, last \in Ints :
              first <= last /\ PipeSetup("ints", first, last, TRUE, n)
        \/ \E len \in 0..MaxPush, ends \in BOOLEAN :
              PipeSetup("push", 0, len, ends, n)

\* ints(first, last) with any two values of the type, alone or in front of
\* take(n)
IntsAnyInit ==
    \E n \in {NoTake} \cup (0..MaxTake), first \in Ints, last \in Ints :
        PipeSetup("ints", first, last, TRUE, n)

\* no pipeline is in use
PipeOff == PipeSetup("off", 0, 0, FALSE, NoTake)

\* ints runs inside start: its loop keeps going
IntsRun == IntsNext \/ IntsExit \/ IntsComplete

PipeNext == IntsRun \/ PushNext \/ PushComplete

\* ints with any arguments runs inside start
IntsAnyRun == IntsNext \/ IntsOverflow \/ IntsExit \/ IntsComplete

(***************************************************************************)
(* Part 6 - defer_periodic (src/rx.h 891-905) and its cancellation         *)
(***************************************************************************)
\* the periodic observer's callback runs at most MaxCount times
MaxCount == 2

\* run_loop::call's self (rx.h 2379) pushes whatever the lifetimes say
self_pushes_always(stoppedNow) == TRUE
\* run_loop::call's self (rx.h 2379): if (lifetime.is_stopped() ||
\* next.what.lifetime.is_stopped()) return; the run-loop's own lifetime is live
self_pushes(stoppedNow) == ~stoppedNow

\* subscription::stop (rx.h 269-279) on out.lifetime by thread who: the flag;
\* the teardown follows in the same thread
stop_out(p, who) ==
    IF p.stopped THEN p ELSE [p EXCEPT !.stopped = TRUE, !.tearing = who]

\* defer_periodic has handed its observer to the strand (rx.h 894-903): the
\* run-loop strand has pushed it and returned to the caller (rx.h 2423-2430),
\* the immediate strand is at its loop in the caller (rx.h 738), which calls
\* join() only after the loop
PeriodicSetup(k, at, ext) ==
    per = [kind |-> k, stopAt |-> at, ext |-> ext, count |-> 0,
           stopped |-> FALSE, tearing |-> "none", notified |-> FALSE,
           queued |-> (k = "run_loop"),
           lpc |-> IF k = "run_loop" THEN "idle" ELSE "check",
           jpc |-> IF k = "run_loop" THEN "call" ELSE "loop",
           late |-> FALSE, requeued |-> FALSE]

\* run_loop::step (rx.h 2397-2403) takes the item when it is due
\* (the worker is not inside a callback)
PeriodicPop ==
    /\ per.kind = "run_loop"
    /\ per.lpc = "idle"
    /\ per.queued
    /\ per' = [per EXCEPT !.queued = FALSE, !.lpc = "next"]
    /\ UNCHANGED notPer

\* detail::immediate's loop condition (rx.h 738); stop is false whenever the
\* periodic observer has run, because it always calls self
PeriodicCheck ==
    /\ per.kind = "immediate"
    /\ per.lpc = "check"
    /\ per' = [per EXCEPT !.lpc = IF per.stopped THEN "complete" ELSE "next"]
    /\ UNCHANGED notPer

\* the strand calls next on the periodic observer (rx.h 742, 2376); it is made
\* with out.lifetime (rx.h 896-897), so enforce (rx.h 473-477) drops the call
\* on a stopped lifetime; else the lambda (rx.h 898-900) calls
\* out.next(s.first++), where enforce lets the callback run.  A callback that
\* has seen stopAt calls stop() on its own lifetime (rx.h 2595-2597)
PeriodicNext ==
    /\ per.lpc = "next"
    /\ per.tearing # "cb"
    /\ IF per.stopped
       THEN per' = [per EXCEPT !.lpc = IF per.kind = "run_loop" THEN "complete" ELSE "check"]
       ELSE /\ per.count < MaxCount
            /\ LET p == [per EXCEPT !.count = @ + 1, !.lpc = "self",
                                    !.late = @ \/ per.stopped]
               IN per' = IF p.count = p.stopAt THEN stop_out(p, "cb") ELSE p
    /\ UNCHANGED notPer

\* the teardown of out.lifetime (rx.h 281-299) in the thread that stopped it:
\* joined.notify_all()
PeriodicTeardown ==
    /\ per.tearing # "none"
    /\ per' = [per EXCEPT !.tearing = "none", !.notified = TRUE]
    /\ UNCHANGED notPer

\* the lambda goes on: s.second += period; self(s.second) (rx.h 901-902).
\* run_loop::call pushes the item again unless a lifetime is stopped (rx.h
\* 2376-2384); detail::immediate sets stop = false and goes round its loop
\* (rx.h 743-747)
PeriodicSelf ==
    /\ per.lpc = "self"
    /\ per.tearing # "cb"
    /\ per' = IF per.kind = "immediate"
              THEN [per EXCEPT !.lpc = "check"]
              ELSE IF self_pushes(per.stopped)
              THEN [per EXCEPT !.lpc = "idle", !.queued = TRUE,
                               !.requeued = @ \/ per.stopped]
              ELSE [per EXCEPT !.lpc = "complete"]
    /\ UNCHANGED notPer

\* out.complete() by the strand (rx.h 750, 2385-2388) on the periodic
\* observer: detail::skip, then end stops out.lifetime if it is live (rx.h
\* 479-486); detail::immediate then returns to the caller of defer_periodic
PeriodicComplete ==
    /\ per.lpc = "complete"
    /\ per' = [stop_out(per, "cb") EXCEPT
                  !.lpc = "idle",
                  !.jpc = IF per.kind = "immediate" THEN "call" ELSE @]
    /\ UNCHANGED notPer

\* another thread calls stop() on out.lifetime
PeriodicExtStop ==
    /\ per.ext
    /\ ~per.stopped
    /\ per' = stop_out(per, "ext")
    /\ UNCHANGED notPer

\* join() on the lifetime defer_periodic returned (rx.h 303-311): it returns at
\* once on a stopped lifetime and else waits on joined
PeriodicJoin ==
    /\ per.jpc = "call"
    /\ per.tearing # "cb" \/ per.kind = "run_loop"
    /\ per' = [per EXCEPT !.jpc = IF per.stopped THEN "returned" ELSE "waiting"]
    /\ UNCHANGED notPer

\* the waiting thread is notified and finds stopped set (rx.h 309)
PeriodicJoinWake ==
    /\ per.jpc = "waiting"
    /\ per.notified
    /\ per' = [per EXCEPT !.jpc = "returned"]
    /\ UNCHANGED notPer

\* a spurious wake-up of the waiting thread: the predicate is the flag alone
PeriodicJoinSpurious ==
    /\ per.jpc = "waiting"
    /\ per.stopped
    /\ ~per.notified
    /\ per' = [per EXCEPT !.jpc = "returned"]
    /\ UNCHANGED notPer

PeriodicInit ==
    \E k \in {"immediate", "run_loop"}, at \in 0..MaxCount, ext \in BOOLEAN :
        PeriodicSetup(k, at, ext)

\* no periodic observer is in use
PeriodicOff == PeriodicSetup("off", 0, FALSE)

\* the code that is running: the strand, the teardown, the joining thread
PeriodicRun ==
    \/ PeriodicPop
    \/ PeriodicCheck
    \/ PeriodicNext
    \/ PeriodicTeardown
    \/ PeriodicSelf
    \/ PeriodicComplete
    \/ PeriodicJoin
    \/ PeriodicJoinWake

PeriodicStep == PeriodicRun \/ PeriodicExtStop \/ PeriodicJoinSpurious

(***************************************************************************)
(* Part 7 - delay (src/rx.h 1865-1896)                                     *)
(***************************************************************************)
\* delay(S, d) with d in 0 .. MaxDelay, the clock runs from 0 to MaxNow, and
\* the upstream emits up to MaxSignals values before it ends
MaxDelay == 1
MaxNow == 2
MaxSignals == 2

\* a deferral that forgets the delay
defer_at_once(t, d) == t
\* defer_after (rx.h 1241-1245): s.defer_at(s.now() + delay, out)
defer_after(t, d) == t + d

\* the observer delay defers for one upstream signal (rx.h 1877-1879,
\* 1883-1885, 1889-1891): sig is what it forwards, idx its place among the
\* upstream signals, recv the time it was received; when and ord as in
\* observe_at_queue::push (rx.h 2286-2292)
Deferred(sig, idx, recv, when, ord) ==
    [sig |-> sig, idx |-> idx, recv |-> recv, when |-> when, ord |-> ord]

\* the deferred observer runs (rx.h 1877-1878): r.next(v), r.error(e) or
\* r.complete() on the downstream observer, whose enforce and end (rx.h
\* 473-486) drop the call on a stopped lifetime and stop it on a terminal
\* signal; log is what the downstream callbacks saw, and when
delivered(p, e) ==
    IF p.rstopped THEN p
    ELSE [p EXCEPT !.log = Append(@, [sig |-> e.sig, idx |-> e.idx,
                                       recv |-> e.recv, at |-> p.now]),
                   !.rstopped = e.sig # "next"]

\* Clock::now() advances
DelayTick ==
    /\ dl.kind # "off"
    /\ dl.now < MaxNow
    /\ dl' = [dl EXCEPT !.now = @ + 1]
    /\ UNCHANGED notDelay

\* the upstream calls next, error or complete on delay's observer (rx.h
\* 1875-1893), one call at a time; enforce and end on delay's own lifetime
\* (rx.h 1871, 473-486) let it through until the first terminal signal.  The
\* run-loop strand queues the deferred observer (rx.h 2423-2430), the
\* immediate strand keeps the caller in defer_at (rx.h 734-751).
\* With copy_if in front (rx.h 1898-1910) the call goes through copy_if's
\* observer, made with ctx.lifetime (rx.h 1905): a value reaches delay if
\* pred(v) (rx.h 1906); error and complete are passed on (rx.h 674, 514-524)
\* and, delay's observer having returned, end stops ctx.lifetime (rx.h
\* 647-655, 479-486) - the lifetime of the outcontext (rx.h 1873) on which the
\* downstream observer was created (rx.h 1874).
Upstream(sig) ==
    /\ dl.kind # "off"
    /\ ~dl.dstopped
    /\ dl.sleeping = <<>>
    /\ IF sig = "next" THEN dl.received < MaxSignals ELSE TRUE
    /\ \E ok \in (IF dl.front = "copy_if" /\ sig = "next" THEN BOOLEAN ELSE {TRUE}) :
         LET e == Deferred(sig, dl.received + 1, dl.now,
                           defer_after(dl.now, dl.d), dl.ordinal)
             p == [dl EXCEPT !.received = @ + 1, !.dstopped = sig # "next",
                             !.passed = IF ok THEN Append(@, dl.received + 1) ELSE @]
             q == IF ~ok THEN p
                  ELSE IF dl.kind = "immediate"
                  THEN [p EXCEPT !.sleeping = <<e>>]
                  ELSE [p EXCEPT !.q = @ \cup {e}, !.ordinal = @ + 1]
         IN dl' = IF dl.front = "copy_if" /\ sig # "next" /\ dl.kind = "run_loop"
                  THEN [q EXCEPT !.rstopped = TRUE]
                  ELSE q
    /\ UNCHANGED notDelay

\* run_loop::step and call (rx.h 2368-2407): the worker takes the top of the
\* queue once it is due and calls its next
DelayWorker ==
    /\ dl.kind = "run_loop"
    /\ \E e \in Tops(dl.q) :
         /\ e.when <= dl.now
         /\ dl' = [delivered(dl, e) EXCEPT !.q = @ \ {e}]
    /\ UNCHANGED notDelay

\* detail::immediate (rx.h 738-747): sleep_until(next) has returned, out.next
DelayWake ==
    /\ dl.kind = "immediate"
    /\ dl.sleeping # <<>>
    /\ dl.sleeping[1].when <= dl.now
    /\ dl' = [delivered(dl, dl.sleeping[1]) EXCEPT !.sleeping = <<>>]
    /\ UNCHANGED notDelay

\* delay(S, d) subscribed (rx.h 1869-1875): one strand made from S for the
\* outcontext, nothing received; front is the operator between the source
\* and delay, passed the upstream signals that were handed to delay
DelaySetup(k, d, front) ==
    dl = [kind |-> k, d |-> d, front |-> front, now |-> 0, received |-> 0,
          passed |-> <<>>, dstopped |-> FALSE, rstopped |-> FALSE, q |-> {},
          ordinal |-> 0, sleeping |-> <<>>, log |-> <<>>]

DelayInit ==
    \E k \in {"immediate", "run_loop"}, d \in 0..MaxDelay : DelaySetup(k, d, "none")

\* source | copy_if(pred) | delay(S, d) | subscriber
FilterDelayInit ==
    \E k \in {"immediate", "run_loop"}, d \in 0..MaxDelay : DelaySetup(k, d, "copy_if")

\* delay is not in use
DelayOff == DelaySetup("off", 0, "none")

DelayNext ==
    \/ DelayTick
    \/ \E sig \in {"next", "error", "complete"} : Upstream(sig)
    \/ DelayWorker
    \/ DelayWake

(***************************************************************************)
(* Part 8 - make_state and ~shared (src/rx.h 161-173, 377-394)             *)
(***************************************************************************)
\* states made on the lifetime, and copies of the lifetime (subscription
\* objects and state handles) alive at one time
MaxStates == 3
MaxHandles == 5

never_throws(stoppedNow) == FALSE

\* if (is_stopped()) throw lifetime_error(...) (rx.h 379-381, 412-414)
throws(stoppedNow) == stoppedNow

\* a thread calls make_state<Payload>(args) (rx.h 377) through a handle
StateMake ==
    /\ sto.pc = "alive"
    /\ sto.refs > sto.hooks
    /\ sto.mk = "idle"
    /\ sto.made < MaxStates
    /\ sto.refs < MaxHandles
    /\ sto' = [sto EXCEPT !.mk = "check", !.began = sto.stopped]
    /\ UNCHANGED notState

\* a thread calls copy_state(o) (rx.h 411) with a state made before
StateCopy ==
    /\ sto.pc = "alive"
    /\ sto.refs > sto.hooks
    /\ sto.mk = "idle"
    /\ sto.made > 0
    /\ sto.made < MaxStates
    /\ sto.refs < MaxHandles
    /\ sto' = [sto EXCEPT !.mk = "copy", !.began = sto.stopped]
    /\ UNCHANGED notState

\* copy_state (rx.h 412-416): the test of the flag, then make_state<Payload>(o.get())
StateCopyCheck ==
    /\ sto.mk = "copy"
    /\ sto' = IF throws(sto.stopped)
              THEN [sto EXCEPT !.mk = "idle", !.last = "thrown"]
              ELSE [sto EXCEPT !.mk = "check"]
    /\ UNCHANGED notState

\* make_state (rx.h 379-381): on a stopped lifetime it throws lifetime_error
\* before anything is allocated
StateMakeCheck ==
    /\ sto.mk = "check"
    /\ sto' = IF throws(sto.stopped)
              THEN [sto EXCEPT !.mk = "idle", !.last = "thrown"]
              ELSE [sto EXCEPT !.mk = "lock"]
    /\ UNCHANGED notState

\* make_state (rx.h 382-393): under the lock the payload is made, the state
\* handle returned holds a copy of the subscription (rx.h 385) and the
\* destructor goes to the front of shared::destructors; stop() holds the same
\* lock from the flag to the end of an inline teardown (rx.h 272-279)
StateMakeLock ==
    /\ sto.mk = "lock"
    /\ ~sto.stopping
    /\ sto' = [sto EXCEPT !.mk = "idle", !.last = "made",
                          !.made = @ + 1,
                          !.destructors = <<sto.made + 1>> \o @,
                          !.refs = @ + 1]
    /\ UNCHANGED notState

\* insert(hook) (rx.h 239-248) with a stop-hook that captures a state handle,
\* as the hooks of merge do (rx.h 2002, 2016): the store holds a reference to
\* itself
HookCapture ==
    /\ sto.pc = "alive"
    /\ sto.refs > sto.hooks
    /\ ~sto.stopped
    /\ sto.made > 0
    /\ sto.refs < MaxHandles
    /\ sto' = [sto EXCEPT !.refs = @ + 1, !.hooks = @ + 1]
    /\ UNCHANGED notState

\* a subscription or a state handle is copied
HandleCopy ==
    /\ sto.pc = "alive"
    /\ sto.refs > sto.hooks
    /\ sto.refs < MaxHandles
    /\ sto' = [sto EXCEPT !.refs = @ + 1]
    /\ UNCHANGED notState

\* a subscription or a state handle goes out of scope (not the one a call in
\* progress was made through); with the last one the
\* shared store is destroyed: auto expired = std::move(destructors) (rx.h 167)
HandleDrop ==
    /\ sto.pc = "alive"
    /\ sto.refs - sto.hooks >
           (IF sto.stopping THEN 1 ELSE 0) + (IF sto.mk = "idle" THEN 0 ELSE 1)
    /\ sto' = IF sto.refs = 1
              THEN [sto EXCEPT !.refs = 0, !.pc = "dying",
                               !.expired = sto.destructors, !.destructors = <<>>]
              ELSE [sto EXCEPT !.refs = @ - 1]
    /\ UNCHANGED notState

\* ~shared (rx.h 168-170): for (auto& d : expired) d()
SharedDestroy ==
    /\ sto.pc = "dying"
    /\ sto' = IF sto.expired = <<>>
              THEN [sto EXCEPT !.pc = "gone"]
              ELSE [sto EXCEPT !.expired = Tail(@),
                               !.ran = Append(@, [id |-> Head(sto.expired),
                                                  live |-> ~sto.stopped])]
    /\ UNCHANGED notState

\* stop() (rx.h 268-279) through one of the handles: the flag; st keeps the
\* store alive for the teardown
StateStop ==
    /\ sto.pc = "alive"
    /\ sto.refs > sto.hooks
    /\ ~sto.stopped
    /\ sto' = [sto EXCEPT !.stopped = TRUE, !.stopping = TRUE]
    /\ UNCHANGED notState

\* the teardown (rx.h 280-299): others, the stoppers run and are destroyed
\* with what they captured (rx.h 288-293), notify_all; destructors is not
\* touched
StateTeardown ==
    /\ sto.stopping
    /\ sto' = [sto EXCEPT !.stopping = FALSE, !.tornDown = TRUE,
                          !.refs = @ - sto.hooks, !.hooks = 0]
    /\ UNCHANGED notState

\* a subscription object (rx.h 189) with n copies of it: no state yet
StateSetup(n, pc) ==
    sto = [refs |-> n, hooks |-> 0, pc |-> pc, made |-> 0, destructors |-> <<>>,
           expired |-> <<>>, ran |-> <<>>, stopped |-> FALSE,
           stopping |-> FALSE, tornDown |-> FALSE,
           mk |-> "idle", began |-> FALSE, last |-> "none"]

StateInit == \E n \in 1..2 : StateSetup(n, "alive")

\* no state is in use
StateOff == StateSetup(0, "off")

StateNext ==
    \/ StateMake
    \/ StateCopy
    \/ StateCopyCheck
    \/ StateMakeCheck
    \/ StateMakeLock
    \/ HookCapture
    \/ HandleCopy
    \/ HandleDrop
    \/ SharedDestroy
    \/ StateStop
    \/ StateTeardown

(***************************************************************************)
(* Part 9 - finally (src/rx.h 1926-1937)                                   *)
(***************************************************************************)
\* values the source may emit before it ends
MaxValues == 1

\* M: the thread that subscribes and on which the source emits; X: a thread
\* that holds the lifetime and stops it; W: the worker of the context's strand
FinallyThreads == {"M", "X", "W"}

\* the stopper handed to finally
FinallyHook == "f"

\* k runs of the stopper; early records a run on a lifetime that is live
hook_ran(f, k) == [f EXCEPT !.runs = @ + k, !.early = @ \/ (k > 0 /\ ~f.stopped)]

\* finally's subscriber, rx.h 1931-1933: r = scbr.create(ctx), then
\* r.lifetime.insert(f), which tests the flag (rx.h 240-243) and runs f at
\* once on a stopped lifetime
FinallyCreate ==
    /\ fin.pc = "create"
    /\ fin' = IF fin.stopped
              THEN [hook_ran(fin, 1) EXCEPT !.pc = "source"]
              ELSE [fin EXCEPT !.pc = "insert"]
    /\ UNCHANGED notFinally

\* subscription::insert(function<void()>), rx.h 245-247: lock, emplace_front;
\* the trailing "if (store->stopped) stop()" returns at rx.h 269-271.  Then
\* finally returns its observer (rx.h 1934) and the source starts
FinallyInsert ==
    /\ fin.pc = "insert"
    /\ fin.lock = "none"
    /\ fin' = [fin EXCEPT !.stoppers = emplace_front(@, FinallyHook),
                          !.late = fin.stopped,
                          !.pc = "source"]
    /\ UNCHANGED notFinally

\* the source emits a value: observer::next (rx.h 642-646) runs the
\* subscriber's callback unless the lifetime is stopped (enforce, rx.h 473-477)
FinallyValue ==
    /\ fin.pc = "source"
    /\ fin.left > 0
    /\ fin' = [fin EXCEPT !.left = @ - 1,
                          !.seen = IF fin.stopped THEN @ ELSE Append(@, "next")]
    /\ UNCHANGED notFinally

\* the source calls complete() or error(e) on finally's observer: end (rx.h
\* 479-486) does nothing on a stopped lifetime
FinallyEnd ==
    /\ fin.pc = "source"
    /\ fin.path # "none"
    /\ fin' = [fin EXCEPT !.pc = IF fin.stopped THEN "done" ELSE "deliver"]
    /\ UNCHANGED notFinally

\* the delegating callback (detail::pass, rx.h 514-524) calls r.complete() or
\* r.error(e): end tests the flag again, runs the subscriber's callback and
\* calls lifetime.stop() (rx.h 482-483)
FinallyDeliver ==
    /\ fin.pc = "deliver"
    /\ fin' = IF fin.stopped
              THEN [fin EXCEPT !.pc = "outer", !.stop["M"] = "check"]
              ELSE [fin EXCEPT !.seen = Append(@, fin.path), !.pc = "inner",
                               !.stop["M"] = "check"]
    /\ UNCHANGED notFinally

\* r's end has returned: the end of finally's observer calls lifetime.stop()
\* as well (rx.h 483)
FinallyOuterStop ==
    /\ fin.pc = "inner"
    /\ fin.stop["M"] = "none"
    /\ fin' = [fin EXCEPT !.pc = "outer", !.stop["M"] = "check"]
    /\ UNCHANGED notFinally

\* complete() or error(e) returns to the source
FinallyReturn ==
    /\ fin.pc = "outer"
    /\ fin.stop["M"] = "none"
    /\ fin' = [fin EXCEPT !.pc = "done"]
    /\ UNCHANGED notFinally

\* another thread calls stop() on the lifetime it handed to start
FinallyExternalStop ==
    /\ fin.pc # "off"
    /\ ~fin.ext
    /\ fin' = [fin EXCEPT !.ext = TRUE, !.stop["X"] = "check"]
    /\ UNCHANGED notFinally

\* subscription::stop, rx.h 269-271
FinallyStopCheck(t) ==
    /\ fin.stop[t] = "check"
    /\ fin' = [fin EXCEPT !.stop[t] = IF fin.stopped THEN "none" ELSE "lock"]
    /\ UNCHANGED notFinally

\* subscription::stop, rx.h 272-279: lock, set the flag, st->defer(thunk).  The
\* default thunk runs the teardown with the guard held; the thunk bound by the
\* context (rx.h 1146-1150) posts it on the strand, which drops it when the
\* strand's lifetime is stopped
FinallyStopLock(t) ==
    /\ fin.stop[t] = "lock"
    /\ fin.lock = "none"
    /\ fin' = IF fin.mode = "inline"
              THEN [fin EXCEPT !.stopped = TRUE, !.lock = t, !.stop[t] = "td"]
              ELSE [fin EXCEPT !.stopped = TRUE, !.stop[t] = "none",
                               !.posted = IF fin.strand THEN @ ELSE @ + 1]
    /\ UNCHANGED notFinally

\* the teardown, rx.h 282-300: the children (the strand's lifetime) are
\* stopped, the stoppers are moved out and run, the defer thunk is reset, the
\* joiners are notified
FinallyTeardown(t) ==
    /\ fin.stop[t] = "td"
    /\ fin' = [hook_ran(fin, Len(fin.stoppers)) EXCEPT
                  !.stoppers = moved_from(@),
                  !.strand = TRUE,
                  !.mode = "inline",
                  !.torn = TRUE,
                  !.lock = IF @ = t THEN "none" ELSE @,
                  !.stop[t] = "none"]
    /\ UNCHANGED notFinally

\* run_loop::step and call (rx.h 2368-2407): the worker takes a posted
\* teardown while the strand's lifetime is live
FinallyWorker ==
    /\ fin.posted > 0
    /\ ~fin.strand
    /\ fin.stop["W"] = "none"
    /\ fin' = [fin EXCEPT !.posted = @ - 1, !.stop["W"] = "td"]
    /\ UNCHANGED notFinally

\* source | finally(f) | subscriber is handed to start with a live lifetime
\* (rx.h 2629-2635): the source ends with path after at most n values, and the
\* context's strand is the immediate one (the teardown runs inline) or a
\* run-loop (mode = "strand")
FinallySetup(path, n, mode, pc) ==
    fin = [path |-> path, left |-> n, mode |-> mode, pc |-> pc, ext |-> FALSE,
           stopped |-> FALSE, lock |-> "none", stoppers |-> <<>>, late |-> FALSE,
           stop |-> [t \in FinallyThreads |-> "none"], posted |-> 0,
           strand |-> FALSE, torn |-> FALSE, runs |-> 0, early |-> FALSE,
           seen |-> <<>>]

FinallyInit ==
    \E path \in {"complete", "error", "none"}, n \in 0..MaxValues,
       mode \in {"inline", "strand"} : FinallySetup(path, n, mode, "create")

\* no pipeline with finally is in use
FinallyOff == FinallySetup("none", 0, "inline", "off")

FinallyNext ==
    \/ FinallyCreate
    \/ FinallyInsert
    \/ FinallyValue
    \/ FinallyEnd
    \/ FinallyDeliver
    \/ FinallyOuterStop
    \/ FinallyReturn
    \/ FinallyExternalStop
    \/ \E t \in FinallyThreads : FinallyStopCheck(t)
    \/ \E t \in FinallyThreads : FinallyStopLock(t)
    \/ \E t \in FinallyThreads : FinallyTeardown(t)
    \/ FinallyWorker

(***************************************************************************)
(* Part 10 - observe_on (src/rx.h 1820-1863)                               *)
(***************************************************************************)
\* calls the source and the holder of the lifetime make, all together
MaxSource == 3

\* what the source does to the observer it was handed, and "stop": the holder
\* of the context's lifetime calls stop() on it
SourceCalls == {"next", "error", "complete", "stop"}

\* source | subscriber, source | observe_on(make_immediate) | subscriber, and
\* the observe_on of rx.h 1820-1852 with an immediate strand factory
Pipelines == {"direct", "fast", "general"}

RECURSIVE SourceRuns(_)
\* the call sequences of length n
SourceRuns(n) ==
    IF n = 0 THEN {<<>>}
    ELSE {Append(r, c) : r \in SourceRuns(n - 1), c \in SourceCalls}

\* subscription::stop (rx.h 268-301) on the context's lifetime L: the teardown
\* - run inline, the thunk bound by the context (rx.h 1146-1150) going through
\* an immediate strand whose lifetime is live - stops the children: the
\* strand's lifetime SL and the lifetime O that observe_on nested in L (rx.h
\* 1828)
stop_lifetime(s) == IF s.L THEN s ELSE [s EXCEPT !.L = TRUE, !.SL = TRUE, !.O = TRUE]

\* the subscriber's observer r on the context's lifetime: error and complete
\* (rx.h 620-628) run the callback and stop L unless L is stopped (end, rx.h
\* 479-486)
r_end(s, sig) ==
    IF s.L THEN s ELSE stop_lifetime([s EXCEPT !.seen = Append(@, sig)])

\* r.next (rx.h 615-619): the callback runs unless L is stopped (enforce, rx.h
\* 473-477); what it throws goes to report's handler (rx.h 469-471), which is
\* end on the error callback
r_signal(s, sig, cb) ==
    IF sig # "next" THEN r_end(s, sig)
    ELSE IF s.L THEN s
    ELSE IF cb = "ok" THEN [s EXCEPT !.seen = Append(@, "next")]
    ELSE r_end([s EXCEPT !.seen = Append(@, "next")], "error")

\* a complete callback that forwards to the delegatee, as detail::pass does
pass_on(s) == r_end(s, "complete")

\* detail::skip (rx.h 525-533), the complete callback of the observers that
\* observe_on defers: nothing is forwarded
skip(s) == s

\* defer(outcontext, item) on the immediate strand (rx.h 734-751): the loop
\* body runs once unless the strand's lifetime is stopped (the item's own
\* lifetime is new) - item.next forwards sig to r - and then item.complete()
\* is called
immediate(s, sig, cb) ==
    IF s.SL THEN skip(s) ELSE skip(r_signal(s, sig, cb))

\* the observer of the general observe_on (rx.h 1831-1849) on its lifetime O:
\* next defers an item unless O is stopped (enforce); error and complete
\* defer an item and stop O unless O is stopped (end)
observe_on(s, sig, cb) ==
    IF s.O THEN s
    ELSE IF sig = "next" THEN immediate(s, sig, cb)
    ELSE [immediate(s, sig, cb) EXCEPT !.O = TRUE]

\* lifter::lift (rx.h 1569-1573) of observe_on(make_immediate) returns the
\* subscriber it was given (rx.h 1856-1862): the pipeline is the direct one
lift(k) == IF k = "fast" THEN "direct" ELSE k

\* one call of the source, or of the holder of the lifetime, on pipeline k
signal(k, s, sig, cb) ==
    IF sig = "stop" THEN stop_lifetime(s)
    ELSE IF lift(k) = "direct" THEN r_signal(s, sig, cb)
    ELSE observe_on(s, sig, cb)

\* the next call of the run is sig
Due(sig) == oo.i < Len(oo.src) /\ oo.src[oo.i + 1] = sig

\* the call is made on the three pipelines
called(sig) ==
    [oo EXCEPT !.i = @ + 1,
               !.pipes = [k \in Pipelines |-> signal(k, oo.pipes[k], sig, oo.cb)]]

\* the source calls next(v)
ObserveOnNext ==
    /\ Due("next")
    /\ oo' = called("next")
    /\ UNCHANGED notObserve

\* the source calls error(e)
ObserveOnError ==
    /\ Due("error")
    /\ oo' = called("error")
    /\ UNCHANGED notObserve

\* the source calls complete()
ObserveOnComplete ==
    /\ Due("complete")
    /\ oo' = called("complete")
    /\ UNCHANGED notObserve

\* the holder of the context's lifetime calls stop()
ObserveOnStop ==
    /\ Due("stop")
    /\ oo' = called("stop")
    /\ UNCHANGED notObserve

\* the three pipelines are subscribed on live lifetimes; the subscriber's next
\* callback returns (cb = "ok") or throws
ObserveSetup(src, cb) ==
    oo = [src |-> src, cb |-> cb, i |-> 0,
          pipes |-> [k \in Pipelines |->
                       [L |-> FALSE, O |-> FALSE, SL |-> FALSE, seen |-> <<>>]]]

ObserveInit ==
    \E n \in 0..MaxSource : \E src \in SourceRuns(n), cb \in {"ok", "throw"} :
        ObserveSetup(src, cb)

\* no pipeline with observe_on is in use
ObserveOff == ObserveSetup(<<>>, "off")

ObserveNext ==
    \/ ObserveOnNext
    \/ ObserveOnError
    \/ ObserveOnComplete
    \/ ObserveOnStop

(***************************************************************************)
(* Part 11 - lifters piped together: copy_if, take, last_or_default        *)
(* (src/rx.h 1898-1910, 1939-1982, 2092-2118)                              *)
(***************************************************************************)
\* the sources emit 1, 2, ... up to MaxRange
MaxRange == 10
\* take(n) with n in 0 .. MaxN
MaxN == 3
\* last_or_default(42) (rx.h 2666)
Default == 42

\* the operators between the source and the subscriber, first the one next to
\* the source: copy_if(even), take(n) and last_or_default(Default)
Chains == {<<"last_or_default">>,
           <<"take", "last_or_default">>,
           <<"copy_if", "last_or_default">>,
           <<"copy_if", "take", "last_or_default">>,
           <<"copy_if", "copy_if">>,
           <<"last_or_default", "copy_if">>}
Lifters == {"copy_if", "last_or_default"}

\* the predicate handed to copy_if
even(v) == v % 2 = 0

\* make_lifter (rx.h 1580-1583) for one operator: lift(s) puts the operator's
\* observer in front of s
make_lifter(name) == [parts |-> <<name>>, piped |-> FALSE]

\* the subscriber at the end of the pipeline, and what a call that returns
\* no subscriber leaves
collector == [ok |-> TRUE, stages |-> <<>>]
NoSubscriber == [ok |-> FALSE, stages |-> <<>>]

\* operator|(lifter, lifter) (rx.h 2102-2106, rx_pipe_operator.h 21-25):
\* make_lifter of a lambda whose body is the expression statement
\* 'lhs.lift(rhs.lift(scbr));'
pipe_lifters(lhs, rhs) == [parts |-> lhs.parts \o rhs.parts, piped |-> TRUE]

\* lifter::lift (rx.h 1570-1573) returns l(s) and requires it to be a
\* subscriber.  The lambda of operator|(lifter, lifter) has no return
\* statement: l(s) is void, the static_assert of rx.h 1571 fails and no
\* subscriber comes out of the call.
lift_of(l, s) ==
    IF l.piped THEN NoSubscriber
    ELSE [ok |-> s.ok, stages |-> l.parts \o s.stages]

RECURSIVE nested(_, _)
\* operator|(lifter, subscriber) (rx.h 2092-2094) and operator|(observable,
\* lifter), operator|(adaptor, lifter) (rx.h 2114-2118, 2159-2166) down the
\* chain from position k: each operator lifts the subscriber built so far
nested(chain, k) ==
    IF k > Len(chain) THEN collector
    ELSE lift_of(make_lifter(chain[k]), nested(chain, k + 1))

\* source | (l1 | l2) | s: the first two operators are piped into one lifter
\* before they meet the subscriber
composed(chain) ==
    lift_of(pipe_lifters(make_lifter(chain[1]), make_lifter(chain[2])),
            nested(chain, 3))

\* last.get() = v (rx.h 1949)
holds_default(p, v) == p
holds(p, v) == [p EXCEPT !.lastv = v]

RECURSIVE on_next(_, _, _)
RECURSIVE on_complete(_, _)
\* next of the k-th observer of the pipeline, the subscriber's after the last
\* operator.  Every operator's observer is make_observer(r, ctx.lifetime, ...)
\* (rx.h 1905, 1947, 1971): its next runs behind enforce on the one lifetime
\* of the context (rx.h 642-646, 473-477).  copy_if: if (pred(v)) r.next(v)
\* (rx.h 1906); take: rx.h 1972-1978; last_or_default: rx.h 1948-1950.
on_next(p, k, v) ==
    IF k > Len(p.sub.stages) THEN subscriber_next(p, v)
    ELSE IF p.stopped THEN p
    ELSE IF p.sub.stages[k] = "copy_if"
         THEN (IF even(v) THEN on_next(p, k + 1, v) ELSE p)
    ELSE IF p.sub.stages[k] = "take"
         THEN LET q == [p EXCEPT !.remaining = @ - 1] IN
              IF remaining_is_zero(p.remaining)
              THEN on_complete(q, k + 1)
              ELSE on_next(q, k + 1, v)
    ELSE holds(p, v)

\* complete of the k-th observer: end on the context's lifetime (rx.h 652-655,
\* 479-486) runs the operator's complete and then lifetime.stop().  copy_if
\* and take leave detail::pass in place (rx.h 674, 514-524);
\* last_or_default's is r.next(last.get()); r.complete() (rx.h 1952-1955).
on_complete(p, k) ==
    IF k > Len(p.sub.stages) THEN subscriber_complete(p)
    ELSE IF p.stopped THEN p
    ELSE LET q == IF p.sub.stages[k] = "last_or_default"
                  THEN on_complete(on_next([p EXCEPT !.upc = @ + 1], k + 1, p.lastv),
                                   k + 1)
                  ELSE on_complete(p, k + 1)
         IN [q EXCEPT !.stopped = TRUE]

\* the pipeline expression is evaluated: the operators are put in front of
\* the subscriber one by one, or the first two are piped together first
LiftBind ==
    /\ lp.pc = "bind"
    /\ LET s == IF lp.route = "composed" THEN composed(lp.chain)
                ELSE nested(lp.chain, 1)
       IN lp' = [lp EXCEPT !.sub = s,
                           !.pc = IF s.ok THEN "loop" ELSE "ill-formed"]
    /\ UNCHANGED notLift

\* one round of ints' loop (rx_ints.h 13-16) over 1 .. last
RangeNext ==
    /\ lp.src = "ints"
    /\ lp.pc = "loop"
    /\ ~lp.stopped
    /\ lp' = [on_next([lp EXCEPT !.out = Append(@, lp.i)], 1, lp.i) EXCEPT
                 !.pc = IF lp.i = lp.last THEN "complete" ELSE "loop",
                 !.i = IF lp.i = lp.last THEN lp.i ELSE lp.i + 1]
    /\ UNCHANGED notLift

\* the loop ends because r.lifetime.is_stopped() (rx_ints.h 13)
RangeExit ==
    /\ lp.src = "ints"
    /\ lp.pc = "loop"
    /\ lp.stopped
    /\ lp' = [lp EXCEPT !.pc = "complete"]
    /\ UNCHANGED notLift

\* r.complete(); return ctx.lifetime (rx_ints.h 17-18)
RangeComplete ==
    /\ lp.src = "ints"
    /\ lp.pc = "complete"
    /\ lp' = [on_complete([lp EXCEPT !.ended = TRUE], 1) EXCEPT !.pc = "returned"]
    /\ UNCHANGED notLift

\* a source that does not look at the lifetime emits its next value
EmitNext ==
    /\ lp.src = "push"
    /\ lp.pc = "loop"
    /\ Len(lp.out) < lp.last
    /\ lp' = on_next([lp EXCEPT !.out = Append(@, Len(lp.out) + 1)], 1,
                     Len(lp.out) + 1)
    /\ UNCHANGED notLift

\* ... and completes after its last value, if it is one that completes
EmitComplete ==
    /\ lp.src = "push"
    /\ lp.pc = "loop"
    /\ lp.ends
    /\ Len(lp.out) = lp.last
    /\ lp' = [on_complete([lp EXCEPT !.ended = TRUE], 1) EXCEPT !.pc = "returned"]
    /\ UNCHANGED notLift

\* the pipeline expression before it is evaluated: make_state puts n in
\* remaining (rx.h 1970) and def in last (rx.h 1946)
LiftSetup(src, last, ends, chain, route, n) ==
    lp = [src |-> src, last |-> last, ends |-> ends, chain |-> chain,
          route |-> route, take |-> n, remaining |-> n, lastv |-> Default,
          sub |-> NoSubscriber, i |-> 1, pc |-> "bind", out |-> <<>>,
          ended |-> FALSE, upc |-> 0, seen |-> <<>>, completes |-> 0,
          stopped |-> FALSE]

HasTake(chain) == \E k \in 1..Len(chain) : chain[k] = "take"

\* the two operators next to the source are lifters and can be piped together
PipedFirst(chain) ==
    Len(chain) >= 2 /\ chain[1] \in Lifters /\ chain[2] \in Lifters

LiftInit ==
    \E chain \in Chains, route \in {"nested", "composed"}, n \in 0..MaxN :
        /\ HasTake(chain) \/ n = 0
        /\ route = "composed" => PipedFirst(chain)
        /\ \/ \E last \in 1..MaxRange : LiftSetup("ints", last, TRUE, chain, route, n)
           \/ \E len \in 0..MaxRange, ends \in BOOLEAN :
                 LiftSetup("push", len, ends, chain, route, n)

\* no such pipeline is in use
LiftOff == LiftSetup("off", 0, FALSE, <<>>, "nested", 0)

LiftNext ==
    \/ LiftBind
    \/ RangeNext
    \/ RangeExit
    \/ RangeComplete
    \/ EmitNext
    \/ EmitComplete

(***************************************************************************)
(* Part 12: the run-loop under its locks (rx.h 2297-2438).  Three threads: *)
(* W runs run_loop::run, D calls strand::operator() (defer_at) and S calls *)
(* subscription::stop, on the strand's lifetime SL or on the run-loop's    *)
(* own lifetime RL.  run_loop::make nests RL in SL (2435), so SL.others    *)
(* holds RL from the start; RL.stoppers holds, front first, the unnest     *)
(* thunk of that insert (213-223) and the notify hook of the constructor   *)
(* (2321-2325).  qlock is guarded_loop::lock, slock and rlock are the      *)
(* mutexes of SL and RL.  The mutex of a deferred observer's own lifetime  *)
(* is left out: its holder waits for nothing but slock, and no thread      *)
(* that holds slock waits for it once the flag is set (269).               *)
(***************************************************************************)
MaxDefer == 2
MaxClock == 2

\* the lifetimes nested in SL: those of the deferred observers, and RL
Ids == 1..MaxDefer
RLife == MaxDefer + 1
Free == "free"
\* an item of the queue: the observer, its time and its ordinal
Item(id, when, ord) == [id |-> id, when |-> when, ord |-> ord]
NoItem == Item(0, 0, 0)

\* deferred.top(): least when, fifo among equals (compare_elem, 2253-2262)
loop_top(q) ==
    CHOOSE e \in q : \A f \in q :
        e.when < f.when \/ (e.when = f.when /\ e.ord <= f.ord)

\* run_loop::is_ready (2331-2338)
loop_is_ready(r) ==
    r.deferred # {} /\ loop_top(r.deferred).when <= r.now

\* condition_variable::notify_all: wakes the worker if it is blocked
notify_all(r) ==
    IF r.w \in {"blocked_until", "blocked_empty"} THEN [r EXCEPT !.wn = TRUE]
    ELSE r

\* run() is left: wait returned false (2365, 2412), the guard is released
run_exit(r) == [r EXCEPT !.qlock = Free, !.w = "exited"]

\* run_loop::run takes the queue lock (2410)
WRun ==
    /\ rl.w = "run" /\ rl.qlock = Free
    /\ rl' = [rl EXCEPT !.qlock = "W", !.w = "wait"]
    /\ UNCHANGED notLoop

\* run_loop::wait up to the choice of the wait (2347-2356)
WWait ==
    /\ rl.w = "wait"
    /\ rl' = IF rl.rstop THEN run_exit(rl)
             ELSE IF rl.deferred # {}
                  THEN [rl EXCEPT !.w = "until",
                                  !.wd = loop_top(rl.deferred).when]
                  ELSE [rl EXCEPT !.w = "empty"]
    /\ UNCHANGED notLoop

\* the predicate of wait_until (2350-2354) or of wait (2357-2361), tested
\* under the lock; when it is false the worker releases the lock and blocks
WPred ==
    /\ rl.w \in {"until", "empty"}
    /\ LET pred == \/ rl.w = "until" /\ loop_is_ready(rl)
                   \/ rl.w = "empty" /\ rl.deferred # {}
                   \/ rl.rstop
       IN rl' = IF pred
                THEN IF rl.rstop THEN run_exit(rl) ELSE [rl EXCEPT !.w = "step"]
                ELSE [rl EXCEPT !.qlock = Free, !.wn = FALSE, !.wt = FALSE,
                                !.w = IF rl.w = "until" THEN "blocked_until"
                                      ELSE "blocked_empty"]
    /\ UNCHANGED notLoop

Reacquire(r) == IF r.w = "blocked_until" THEN "lock_until" ELSE "lock_empty"
TimedOut(r) == r.w = "blocked_until" /\ r.now >= r.wd

\* the blocked worker is notified or its deadline passes
WWake ==
    /\ rl.w \in {"blocked_until", "blocked_empty"}
    /\ rl.wn \/ TimedOut(rl)
    /\ \E t \in BOOLEAN :
          /\ t => TimedOut(rl)
          /\ ~t => rl.wn
          /\ rl' = [rl EXCEPT !.w = Reacquire(rl), !.wt = t]
    /\ UNCHANGED notLoop

\* a spurious wakeup, which condition_variable::wait permits
WSpurious ==
    /\ rl.w \in {"blocked_until", "blocked_empty"}
    /\ ~rl.wn /\ ~TimedOut(rl)
    /\ rl' = [rl EXCEPT !.w = Reacquire(rl), !.wt = FALSE]
    /\ UNCHANGED notLoop

\* the woken worker takes the lock again; after a timeout wait_until returns
\* whatever the predicate says, and wait returns !is_stopped (2365)
WLock ==
    /\ rl.w \in {"lock_until", "lock_empty"} /\ rl.qlock = Free
    /\ rl' = IF rl.wt
             THEN IF rl.rstop THEN [rl EXCEPT !.w = "exited"]
                  ELSE [rl EXCEPT !.qlock = "W", !.w = "step"]
             ELSE [rl EXCEPT !.qlock = "W",
                             !.w = IF rl.w = "lock_until" THEN "until"
                                   ELSE "empty"]
    /\ UNCHANGED notLoop

\* run_loop::step: the test of the loop, the pop and the unlock (2397-2403)
WStep ==
    /\ rl.w = "step"
    /\ rl' = IF ~rl.rstop /\ loop_is_ready(rl)
             THEN [rl EXCEPT !.deferred = @ \ {loop_top(rl.deferred)},
                             !.wi = loop_top(rl.deferred),
                             !.qlock = Free, !.w = "call"]
             ELSE [rl EXCEPT !.w = "wait"]
    /\ UNCHANGED notLoop

\* run_loop::call hands the observer its next (2376); the observer either
\* calls self(at) or returns
WCall ==
    /\ rl.w = "call"
    /\ \/ rl' = [rl EXCEPT !.called = @ \cup {rl.wi.ord}, !.w = "complete"]
       \/ /\ rl.selfs < MaxResched
          /\ \E at \in Times :
                rl' = [rl EXCEPT !.called = @ \cup {rl.wi.ord}, !.w = "self",
                                 !.wat = at, !.selfs = @ + 1]
    /\ UNCHANGED notLoop

\* the self lambda (2377-2382) under the nested guard
WSelf ==
    /\ rl.w = "self" /\ rl.qlock = Free
    /\ rl' = IF rl.rstop \/ rl.wi.id \in rl.ostop
             THEN [rl EXCEPT !.w = "complete"]
             ELSE [rl EXCEPT !.deferred = @ \cup
                                 {Item(rl.wi.id, rl.wat, rl.ordinal)},
                             !.ordinal = @ + 1, !.w = "relock"]
    /\ UNCHANGED notLoop

\* next.what.complete() (2385-2388) ends the observer's lifetime (479-486,
\* 268-277); its stoppers are the erase hook (2426) and the unnest thunk
\* (213-223), both SL.erase of that lifetime
WComplete ==
    /\ rl.w = "complete"
    /\ rl' = IF rl.wi.id \in rl.ostop THEN [rl EXCEPT !.w = "relock"]
             ELSE [rl EXCEPT !.ostop = @ \cup {rl.wi.id}, !.erases = 2,
                             !.w = "erase"]
    /\ UNCHANGED notLoop

\* subscription::erase: the test of the flag (227)
WErase ==
    /\ rl.w = "erase"
    /\ rl' = IF rl.erases = 0 THEN [rl EXCEPT !.w = "relock"]
             ELSE IF rl.sstop THEN [rl EXCEPT !.erases = @ - 1]
             ELSE [rl EXCEPT !.w = "erase_lock"]
    /\ UNCHANGED notLoop

\* subscription::erase: the guard and the erase (235-236)
WEraseLock ==
    /\ rl.w = "erase_lock" /\ rl.slock = Free
    /\ rl' = [rl EXCEPT !.kids = @ \ {rl.wi.id}, !.erases = @ - 1,
                        !.w = "erase"]
    /\ UNCHANGED notLoop

\* step locks the guard again after the call (2405)
WRelock ==
    /\ rl.w = "relock" /\ rl.qlock = Free
    /\ rl' = [rl EXCEPT !.qlock = "W", !.w = "step"]
    /\ UNCHANGED notLoop

\* a thread calls defer_at(at, out) with a fresh observer (2423)
DCall ==
    /\ rl.d = "idle" /\ rl.dk < MaxDefer
    /\ \E at \in Times :
          rl' = [rl EXCEPT !.dk = @ + 1, !.dat = at, !.d = "guard"]
    /\ UNCHANGED notLoop

\* strand::operator() takes the queue lock (2424)
DGuard ==
    /\ rl.d = "guard" /\ rl.qlock = Free
    /\ rl' = [rl EXCEPT !.qlock = "D", !.d = "test"]
    /\ UNCHANGED notLoop

\* lifetime.insert(out.lifetime): the test of SL's flag (200-203)
DTest ==
    /\ rl.d = "test"
    /\ rl' = IF rl.sstop
             THEN [rl EXCEPT !.ostop = @ \cup {rl.dk}, !.d = "push"]
             ELSE [rl EXCEPT !.d = "insert"]
    /\ UNCHANGED notLoop

\* lifetime.insert(out.lifetime): the guard on SL and the nesting (209-223)
DInsert ==
    /\ rl.d = "insert" /\ rl.slock = Free
    /\ rl' = [rl EXCEPT !.kids = @ \cup {rl.dk}, !.d = "push"]
    /\ UNCHANGED notLoop

\* the erase hook, the push and the notify; the guard is released (2426-2430)
DPush ==
    /\ rl.d = "push"
    /\ rl' = [notify_all(rl) EXCEPT
                 !.deferred = @ \cup {Item(rl.dk, rl.dat, rl.ordinal)},
                 !.ordinal = @ + 1, !.qlock = Free, !.d = "idle"]
    /\ UNCHANGED notLoop

\* a thread calls stop() on SL or on RL; the flag is not set yet (269)
SCall ==
    /\ rl.s = "idle"
    /\ rl' = [rl EXCEPT !.s = "guard"]
    /\ UNCHANGED notLoop

\* stop: the guard, the flag and the start of the teardown, which runs in
\* the caller under the guard (272-277); RL's first stopper is the unnest
\* thunk, which finds SL live (227)
SGuard ==
    /\ rl.s = "guard"
    /\ \/ /\ rl.via = "strand" /\ rl.slock = Free
          /\ rl' = [rl EXCEPT !.slock = "S", !.sstop = TRUE, !.sleft = rl.kids,
                              !.kids = {}, !.s = "others"]
       \/ /\ rl.via = "loop" /\ rl.rlock = Free
          /\ rl' = [rl EXCEPT !.rlock = "S", !.rstop = TRUE, !.s = "unnest"]
    /\ UNCHANGED notLoop

\* the teardown of SL stops the nested lifetimes in the order of the set
\* (278-283); stopping RL sets its flag under its guard, and its unnest
\* thunk returns at once because SL is stopped
SOthers ==
    /\ rl.s = "others"
    /\ \/ /\ rl.sleft = {}
          /\ rl' = [rl EXCEPT !.slock = Free, !.s = "done"]
       \/ \E o \in rl.sleft \cap Ids :
             rl' = [rl EXCEPT !.ostop = @ \cup {o}, !.sleft = @ \ {o}]
       \/ /\ RLife \in rl.sleft /\ rl.rlock = Free
          /\ rl' = [rl EXCEPT !.rlock = "S", !.rstop = TRUE, !.s = "notify"]
    /\ UNCHANGED notLoop

\* the unnest thunk of RL: SL.erase(RL) under SL's guard (235-236)
SUnnest ==
    /\ rl.s = "unnest" /\ rl.slock = Free
    /\ rl' = [rl EXCEPT !.kids = @ \ {RLife}, !.s = "notify"]
    /\ UNCHANGED notLoop

\* the notify hook (2321-2325), then RL's guard is released
SNotify ==
    /\ rl.s = "notify" /\ rl.qlock = Free
    /\ rl' = [notify_all(rl) EXCEPT
                 !.rlock = Free, !.sleft = @ \ {RLife},
                 !.s = IF rl.via = "strand" THEN "others" ELSE "done"]
    /\ UNCHANGED notLoop

\* the clock advances
LoopTick ==
    /\ rl.w # "off" /\ rl.now < MaxClock
    /\ rl' = [rl EXCEPT !.now = @ + 1]
    /\ UNCHANGED notLoop

LoopSetup(target, pc) ==
    rl = [via |-> target, qlock |-> Free, slock |-> Free, rlock |-> Free,
          sstop |-> FALSE, rstop |-> FALSE,
          kids |-> IF pc = "off" THEN {} ELSE {RLife},
          ostop |-> {}, deferred |-> {}, ordinal |-> 0, now |-> 0,
          w |-> IF pc = "off" THEN "off" ELSE "run",
          wd |-> 0, wn |-> FALSE, wt |-> FALSE,
          wi |-> NoItem, wat |-> 0,
          erases |-> 0, selfs |-> 0, called |-> {},
          d |-> pc, dk |-> 0, dat |-> 0, s |-> pc, sleft |-> {}]

LoopInit == \E target \in {"strand", "loop"} : LoopSetup(target, "idle")
LoopOff == LoopSetup("off", "off")

\* the steps of the worker that the scheduler owes it
LoopRun ==
    \/ WRun \/ WWait \/ WPred \/ WWake \/ WLock \/ WStep \/ WCall \/ WSelf
    \/ WComplete \/ WErase \/ WEraseLock \/ WRelock
\* the steps of a defer_at that has been called
LoopDefer == DGuard \/ DTest \/ DInsert \/ DPush
\* the steps of a stop that has been called
LoopStop == SGuard \/ SOthers \/ SUnnest \/ SNotify

LoopNext ==
    \/ WRun \/ WWait \/ WPred \/ WWake \/ WSpurious \/ WLock \/ WStep
    \/ WCall \/ WSelf \/ WComplete \/ WErase \/ WEraseLock \/ WRelock
    \/ DCall \/ DGuard \/ DTest \/ DInsert \/ DPush
    \/ SCall \/ SGuard \/ SOthers \/ SUnnest \/ SNotify
    \/ LoopTick

(***************************************************************************)
(* Specifications                                                          *)
(***************************************************************************)
\* the subscription graph is not in use
LifeOff ==
    /\ stopped = [l \in Lifetimes |-> FALSE]
    /\ lock = [l \in Lifetimes |-> FALSE]
    /\ deferMode = [l \in Lifetimes |-> "inline"]
    /\ others = [l \in Lifetimes |-> {}]
    /\ attached = [l \in Lifetimes |-> {}]
    /\ stoppers = [l \in Lifetimes |-> <<>>]
    /\ stack = [t \in AllThreads |-> <<>>]
    /\ opsLeft = 0
    /\ tq = <<>>
    /\ runs = [h \in Hooks |-> 0]
    /\ hookOwner = [h \in Hooks |-> "none"]
    /\ registered = {}
    /\ inTeardown = {}
    /\ tornDown = [l \in Lifetimes |-> FALSE]
    /\ joinEarly = FALSE
    /\ joinDone = 0
    /\ aborted = FALSE
    /\ hookLog = [ins |-> <<>>, ran |-> <<>>, late |-> {}]

LifeStart == LifeInit /\ ObsOff /\ StrandOff /\ MergeOff /\ PipeOff /\ PeriodicOff
    /\ DelayOff /\ StateOff /\ FinallyOff /\ ObserveOff /\ LiftOff /\ LoopOff
SpecLife == LifeStart /\ [][LifeNext]_vars

NestedStart == NestedInit /\ ObsOff /\ StrandOff /\ MergeOff /\ PipeOff /\ PeriodicOff
    /\ DelayOff /\ StateOff /\ FinallyOff /\ ObserveOff /\ LiftOff /\ LoopOff
SpecNested == NestedStart /\ [][LifeNext]_vars

ObsStart == ObsInit /\ LifeOff /\ StrandOff /\ MergeOff /\ PipeOff /\ PeriodicOff
    /\ DelayOff /\ StateOff /\ FinallyOff /\ ObserveOff /\ LiftOff /\ LoopOff
SpecObs == ObsStart /\ [][ObsNext]_vars

StrandStart == StrandInit /\ LifeOff /\ ObsOff /\ MergeOff /\ PipeOff /\ PeriodicOff
    /\ DelayOff /\ StateOff /\ FinallyOff /\ ObserveOff /\ LiftOff /\ LoopOff
SpecStrand == StrandStart /\ [][StrandNext]_vars

\* the threads that run merge's code keep running; the sources emit when they like
MergeStart == MergeInit /\ LifeOff /\ ObsOff /\ StrandOff /\ PipeOff /\ PeriodicOff
    /\ DelayOff /\ StateOff /\ FinallyOff /\ ObserveOff /\ LiftOff /\ LoopOff
SpecMerge == MergeStart /\ [][MergeNext]_vars /\ WF_vars(MergeRun)

\* ints' loop runs to its end; another source emits when it likes
PipeStart == PipeInit /\ LifeOff /\ ObsOff /\ StrandOff /\ MergeOff /\ PeriodicOff
    /\ DelayOff /\ StateOff /\ FinallyOff /\ ObserveOff /\ LiftOff /\ LoopOff
SpecPipe == PipeStart /\ [][PipeNext]_vars /\ WF_vars(IntsRun)

\* the strand, the teardown and the joining thread keep running; another
\* thread stops the lifetime when it likes
PeriodicStart ==
    PeriodicInit /\ LifeOff /\ ObsOff /\ StrandOff /\ MergeOff /\ PipeOff
    /\ DelayOff /\ StateOff /\ FinallyOff /\ ObserveOff /\ LiftOff /\ LoopOff
SpecPeriodic == PeriodicStart /\ [][PeriodicStep]_vars /\ WF_vars(PeriodicRun)

DelayStart ==
    DelayInit /\ LifeOff /\ ObsOff /\ StrandOff /\ MergeOff /\ PipeOff
    /\ PeriodicOff /\ StateOff /\ FinallyOff /\ ObserveOff /\ LiftOff /\ LoopOff
SpecDelay == DelayStart /\ [][DelayNext]_vars

StateStart ==
    StateInit /\ LifeOff /\ ObsOff /\ StrandOff /\ MergeOff /\ PipeOff
    /\ PeriodicOff /\ DelayOff /\ FinallyOff /\ ObserveOff /\ LiftOff /\ LoopOff
SpecState == StateStart /\ [][StateNext]_vars

\* the source, the stop() calls and the strand's worker run when they like
FinallyStart ==
    FinallyInit /\ LifeOff /\ ObsOff /\ StrandOff /\ MergeOff /\ PipeOff
    /\ PeriodicOff /\ DelayOff /\ StateOff /\ ObserveOff /\ LiftOff /\ LoopOff
SpecFinally == FinallyStart /\ [][FinallyNext]_vars


ObserveStart ==
    ObserveInit /\ LifeOff /\ ObsOff /\ StrandOff /\ MergeOff /\ PipeOff
    /\ PeriodicOff /\ DelayOff /\ StateOff /\ FinallyOff /\ LiftOff /\ LoopOff
SpecObserve == ObserveStart /\ [][ObserveNext]_vars


FilterDelayStart ==
    FilterDelayInit /\ LifeOff /\ ObsOff /\ StrandOff /\ MergeOff /\ PipeOff
    /\ PeriodicOff /\ StateOff /\ FinallyOff /\ ObserveOff /\ LiftOff /\ LoopOff
SpecFilterDelay == FilterDelayStart /\ [][DelayNext]_vars

\* ints runs inside start: its loop keeps going
IntsStart ==
    IntsAnyInit /\ LifeOff /\ ObsOff /\ StrandOff /\ MergeOff /\ PeriodicOff
    /\ DelayOff /\ StateOff /\ FinallyOff /\ ObserveOff /\ LiftOff /\ LoopOff
SpecInts == IntsStart /\ [][IntsAnyRun]_vars /\ WF_vars(IntsAnyRun)

LiftStart ==
    LiftInit /\ ObsOff /\ StrandOff /\ MergeOff /\ PipeOff /\ PeriodicOff
    /\ DelayOff /\ StateOff /\ FinallyOff /\ ObserveOff /\ LifeOff /\ LoopOff
SpecLift == LiftStart /\ [][LiftNext]_vars


LoopStart ==
    LoopInit /\ ObsOff /\ StrandOff /\ MergeOff /\ PipeOff /\ PeriodicOff
    /\ DelayOff /\ StateOff /\ FinallyOff /\ ObserveOff /\ LiftOff
    /\ LifeOff
\* the worker, a defer_at under way, a stop under way and the clock all make
\* progress, and a thread that waits for a mutex which is free again and
\* again gets it; when a call starts is left to the caller
SpecLoop ==
    LoopStart /\ [][LoopNext]_vars /\ SF_vars(LoopRun) /\ SF_vars(LoopDefer)
    /\ SF_vars(LoopStop) /\ WF_vars(LoopTick)


(***************************************************************************)
(* Claims about the subscription graph                                     *)
(***************************************************************************)
\* no call is in flight and the strand's worker has nothing left to run
Quiescent ==
    /\ \A t \in AllThreads : stack[t] = <<>>
    /\ tq = <<>> \/ stopped[S]

\* C1: a child attached to P with P.insert(C) and not erased is stopped once
\* P.stop() has been called: when every call has returned and the strand is
\* drained, no stopped parent still has an attached child that is live.
C1_ChildStoppedAfterParentStop ==
    Quiescent =>
        \A p \in Lifetimes : \A c \in attached[p] : stopped[p] => stopped[c]

\* C2: a stop-hook never runs more than once, and once the lifetime it was
\* registered on has been stopped and torn down it has run exactly once.
C2_HookRunsExactlyOnce ==
    \A h \in Hooks :
        /\ runs[h] <= 1
        /\ (h \in registered /\ tornDown[hookOwner[h]]) => runs[h] = 1

\* C36: a hook or a child registered on a lifetime while another thread stops
\* that lifetime is never lost: once every call has returned, a lifetime whose
\* teardown has run holds no stop-hook that has not run and no child that is
\* live, and every hook registered on it has run exactly once.
C36_RegistrationNeverLost ==
    \A l \in Lifetimes : (Quiescent /\ tornDown[l]) =>
        /\ stoppers[l] = <<>>
        /\ \A c \in others[l] : stopped[c]
        /\ \A h \in Hooks : (h \in registered /\ hookOwner[h] = l) => runs[h] = 1

\* thread t is inside p.insert(c) with p's mutex held (rx.h 209), the unnest
\* thunk ran at once because c was already stopped (rx.h 213, 240-241), and
\* its p.erase(c) waits for the mutex its own thread holds (rx.h 235)
SelfBlocked(t) ==
    /\ stack[t] # <<>>
    /\ Top(t).op = "erase"
    /\ Top(t).pc = "lock"
    /\ \E k \in 2..Len(stack[t]) :
          /\ stack[t][k].op = "insert"
          /\ stack[t][k].pc = "unlock"
          /\ stack[t][k].l = Top(t).l

\* C38: p.insert(c) with c already stopped and p live returns - it never
\* waits for p's mutex while holding it - and once every call has returned no
\* live lifetime has a stopped lifetime among its children.
C38_StoppedChildNotRetained ==
    /\ \A t \in AllThreads : ~SelfBlocked(t)
    /\ Quiescent =>
          \A p \in Lifetimes : ~stopped[p] => \A c \in others[p] : ~stopped[c]

\* C3: join() returns only after the teardown of its lifetime has completed.
C3_JoinReturnsAfterTeardown == ~joinEarly

(***************************************************************************)
(* Claims about observers                                                  *)
(***************************************************************************)
\* C4: for each observer the terminal callbacks (error + complete) have fired
\* at most once in total, and the delegatee has been handed at most one
\* terminal signal by the observer upstream of it.
C4_AtMostOneTerminal ==
    /\ \A o \in Observers : obs.fired[o]["e"] + obs.fired[o]["c"] <= 1
    /\ obs.fwd <= 1

\* C5: once an error or complete callback of an observer has fired (and the
\* call has returned) the observer's lifetime is stopped, and no callback of
\* an observer runs while its lifetime is stopped.
C5_StoppedAfterTerminalAndSilent ==
    /\ \A o \in Observers :
         (~obs.ab /\ obs.fired[o]["e"] + obs.fired[o]["c"] > 0) => obs.st[lifetime(o)]
    /\ ~obs.late

\* the user's callback k of observer o is one that throws
Throws(o, k) == obsCfg[o][k] = "throw"

\* C20: when a next callback that throws has run, the program has aborted or
\* the observer's error callback has run exactly once, the observer's
\* lifetime is stopped and the next callback has run only that once; when an
\* error or complete callback that throws has run, the program has aborted.
C20_ThrowingCallbacks ==
    /\ \A o \in Observers :
         (Throws(o, "n") /\ obs.fired[o]["n"] > 0) =>
             \/ obs.ab
             \/ /\ obs.fired[o]["e"] = 1
                /\ obs.st[lifetime(o)]
                /\ obs.fired[o]["n"] = 1
    /\ \A o \in Observers : \A k \in {"e", "c"} :
         (Throws(o, k) /\ obs.fired[o][k] > 0) => obs.ab

\* the error sink of observer o drops: detail::ignore or detail::skip
Drops(o) == obsCfg[o]["e"] \in {"ignore", "skip"}

\* C24: a delegating observer whose error sink is ignore or skip never hands
\* an error to its delegatee, and with such sinks and no callback that throws
\* an error never aborts the program.
C24_IgnoreAndSkipDropErrors ==
    /\ Drops("U") => obs.fwdE = 0
    /\ (Drops("U") /\ obsCfg.D["e"] = "ignore"
          /\ \A o \in Observers : \A k \in Signals : ~Throws(o, k)) => ~obs.ab

(***************************************************************************)
(* Claims about strands                                                    *)
(***************************************************************************)
\* the invocations of next that have begun and not returned
Running ==
    {cstack[x[1]][x[2]] : x \in
        {y \in SThreads \X (1..Cardinality(Items)) :
            y[2] <= Len(cstack[y[1]]) /\ cstack[y[1]][y[2]].pc = "in_next"}}

\* C6: no next of a scheduled observer is started on a strand whose lifetime
\* is stopped - here in the weakest reading, where the lifetime counts as
\* stopped only once stop() on it has finished its teardown.
C6_NoNextAfterStrandStop ==
    \A f \in Running : ~f.late

\* C7: every invocation of o.next by a strand (the first one and each one
\* after a self-reschedule) begins at a time no earlier than the time it
\* was scheduled for.
C7_RunsNoEarlierThanScheduled ==
    \A f \in Running : f.at >= f.when

\* an observer that rescheduled itself to a later time is invoked again
C7_Witness ==
    \E f \in Running : f.re /\ f.when > 0 /\ f.at >= f.when

\* a precedes b: earlier time, or the same time and pushed first
Precedes(a, b) == a.when < b.when \/ (a.when = b.when /\ a.seq < b.seq)

\* C8: on a run-loop strand an element is taken out for invocation only when
\* no element that was in the queue with it precedes it (earlier time, or
\* equal time and pushed first; a self-reschedule is a new push).
C8_TimeThenFifoOrder ==
    \A a \in lastPop.rest : ~Precedes(a, lastPop.e)

\* two elements with the same time were queued together and the one pushed
\* first was taken
C8_Witness ==
    /\ lastPop.e.item # "none"
    /\ \E a \in lastPop.rest : a.when = lastPop.e.when /\ lastPop.e.seq < a.seq

\* the callbacks that have begun and not returned
Active ==
    {x \in SThreads \X (1..Cardinality(Items)) :
        x[2] <= Len(cstack[x[1]]) /\ cstack[x[1]][x[2]].pc = "in_next"}

\* no callback begins while another one of the strand has not returned
Serial == Cardinality(Active) <= 1

\* an action is taken only when no queued action has an earlier time
TimeOrdered == \A a \in lastPop.rest : a.when >= lastPop.e.when

\* C9 as stated: on every strand, the immediate one included, a's callback
\* has returned before b's begins.
C9_SerialOnEveryStrand == Serial /\ TimeOrdered

\* C9 amended: on a run-loop strand (and the thread and shared-derived
\* strands that run on it) callbacks never overlap and queued actions are
\* taken in time order, also for an action deferred from inside a running
\* callback or by another thread.
C9_SerialOnRunLoopStrands == skind = "run_loop" => (Serial /\ TimeOrdered)

\* b was deferred from inside a running callback of the run-loop strand and
\* b's callback runs now, alone
C9_Witness ==
    /\ skind = "run_loop"
    /\ InCallback("W")
    /\ cstack["W"][1].from # "none"
    /\ Cardinality(Active) = 1

\* a step of stop() on the derived lifetime d: the call, or a step of the
\* teardown it started
StopsDerived(d) ==
    \/ stopStack = <<>> /\ ~sl[d] /\ sl'[d]
    \/ stopStack # <<>> /\ stopStack' # stopStack /\ stopStack[Len(stopStack)].l = d

\* C27: for strands derived from one shared strand, stopping a derived
\* strand's lifetime d erases d from the shared strand's lifetime, stops
\* neither the shared strand nor the run-loop nor another derived strand,
\* leaves the queue and the observers deferred through the other strands as
\* they were, and no observer deferred through d has its next started once
\* stop() on d has finished.
C27_DerivedStopIsLocal ==
    /\ [](\A d \in DerivedLifetimes :
            (skind = "run_loop" /\ stopDone[d] /\ ~sl["SL"]) => d \notin kids["SL"])
    /\ [][\A d \in DerivedLifetimes : StopsDerived(d) =>
            /\ sl'["SL"] = sl["SL"] /\ sl'["RL"] = sl["RL"]
            /\ queue' = queue
            /\ \A e \in DerivedLifetimes \ {d} : sl'[e] = sl[e] /\ kids'[e] = kids[e]
            /\ \A i \in Items : StrandLife(i) # d => sl'[i] = sl[i]]_vars
    /\ [](\A f \in Running : (skind = "run_loop" /\ via[f.item] # "base") => ~f.late)

(***************************************************************************)
(* Claims about merge                                                      *)
(***************************************************************************)
\* the outer source's lifetime and the lifetime of every inner observable
\* merge has subscribed to are stopped
InputsStopped == mstopped[sourcecontext] /\ \A i \in started : mstopped[i]

\* the destination has seen at most one complete, and none while an input is live
CompleteInTime == completes <= 1 /\ (completes > 0 => InputsStopped)

\* C10 as stated, for the immediate and the thread strand factory alike: the
\* destination's complete is never emitted while the outer source or a started
\* inner observable is live, it is emitted at most once, and once all of them
\* are stopped it is eventually emitted
C10_CompleteWhenInputsStopped ==
    [](CompleteInTime) /\ (InputsStopped ~> completes = 1)

\* no call of merge's code is running or waiting on the shared strand
MergeQuiet == mq = <<>> /\ \A t \in MergeThreads : mframe[t].pc = "idle"

\* C11: the values the destination observes are the values the inner
\* observables emitted, each as often as it was emitted: never more, and once
\* every call has run to its end none is missing - also for an inner
\* observable that emits on its own thread after the outer source completed.
C11_MergedValuesAllObserved ==
    /\ \A i \in Inners : observed[i] <= (IF i \in emitted THEN 1 ELSE 0)
    /\ MergeQuiet => \A i \in emitted : observed[i] = 1

\* C21: the destination's error callback never runs twice; once it has run
\* the destination sees no further next and no complete; and when an inner
\* observable has raised an error the callback eventually has run once and
\* the outer source and every started inner observable end up stopped.
C21_InnerErrorStopsMerge ==
    /\ [](merr.n <= 1)
    /\ [][merr.n > 0 => (observed' = observed /\ completes' = completes)]_vars
    /\ (merr.raised # {}) ~> (merr.n = 1 /\ InputsStopped)

(***************************************************************************)
(* Claims about ints and take                                              *)
(***************************************************************************)
Min(a, b) == IF a < b THEN a ELSE b

\* the source has completed, or has emitted more than n values
SourceDone == pipe.ended \/ Len(pipe.out) > pipe.take

\* C12: with take(n) in front of it the subscriber has seen the first n values
\* of the source in order (all of them while the source has emitted fewer), at
\* most one complete, and exactly one as soon as the source has completed or
\* has emitted more than n values.
C12_TakeFirstNThenComplete ==
    pipe.take # NoTake =>
        /\ pipe.seen = SubSeq(pipe.out, 1, Min(pipe.take, Len(pipe.out)))
        /\ pipe.completes <= 1
        /\ SourceDone => pipe.completes = 1

\* take(n), n > 0, a source that does not complete has emitted more than n
\* values, and the subscriber has seen n values and one complete
C12_Witness ==
    /\ pipe.take > 0
    /\ ~pipe.ends
    /\ Len(pipe.out) > pipe.take
    /\ Len(pipe.seen) = pipe.take
    /\ pipe.completes = 1

\* first, first+1, ..., last
Range(first, last) == [k \in 1..(last - first + 1) |-> first + k - 1]

\* s is the beginning of r
IsPrefix(s, r) == Len(s) <= Len(r) /\ \A k \in 1..Len(s) : s[k] = r[k]

IntsAlone == pipe.src = "ints" /\ pipe.take = NoTake

\* C13: ints(first, last) with first <= last, subscribed to directly: the
\* subscriber never sees anything but a prefix of first, ..., last and never a
\* complete before the whole range, and start eventually returns, the
\* subscriber having seen exactly first, ..., last and one complete.
C13_IntsEmitsRangeThenCompletes ==
    /\ [](IntsAlone =>
            /\ IsPrefix(pipe.seen, Range(pipe.first, pipe.last))
            /\ pipe.completes <= 1
            /\ pipe.completes = 1 => pipe.seen = Range(pipe.first, pipe.last))
    /\ (IntsAlone ~>
            /\ pipe.pc = "returned"
            /\ pipe.seen = Range(pipe.first, pipe.last)
            /\ pipe.completes = 1)

\* ints up to the largest value of its type has returned
C13_Witness ==
    /\ IntsAlone
    /\ pipe.first < pipe.last
    /\ pipe.last = IntMod - 1
    /\ pipe.pc = "returned"
    /\ pipe.seen = Range(pipe.first, pipe.last)
    /\ pipe.completes = 1

\* last - first + 1, and none when that is negative
RangeSize == IF pipe.last >= pipe.first THEN pipe.last - pipe.first + 1 ELSE 0

\* C33: whatever its two arguments, first > last included, ints(first, last)
\* hands its observer at most last - first + 1 values and its start returns.
C33_IntsBoundedForAllArguments ==
    /\ [](pipe.src = "ints" => Len(pipe.out) <= RangeSize)
    /\ (pipe.src = "ints" ~> pipe.pc = "returned")

\* take(n), n > 0, has forwarded its n-th value
NthForwarded == pipe.take > 0 /\ Len(pipe.seen) = pipe.take

\* C31: take(n) never forwards more than n values, and once it has forwarded
\* the n-th value the subscriber is sent a complete, whether or not the source
\* emits or signals anything more.
C31_TakeCompletesAfterNth ==
    /\ [](pipe.take # NoTake => Len(pipe.seen) <= pipe.take)
    /\ (NthForwarded ~> pipe.completes = 1)

C15_DelayedAndInOrder ==
    /\ \A k \in 1..Len(dl.log) : dl.log[k].at >= dl.log[k].recv + dl.d
    /\ \A k \in 1..(Len(dl.log) - 1) : dl.log[k].idx < dl.log[k + 1].idx

\* a run-loop strand with d > 0 has delivered two values received at
\* different times and then the complete
C15_Witness ==
    /\ dl.kind = "run_loop"
    /\ dl.d > 0
    /\ Len(dl.log) = 3
    /\ dl.log[1].recv < dl.log[2].recv
    /\ dl.log[3].sig = "complete"

\* what the downstream observer has seen, as places among the upstream signals
Seen(log) == [k \in 1..Len(log) |-> log[k].idx]

\* C37: in source | copy_if(pred) | delay(S, d) | subscriber with S a run-loop
\* strand, once the source has ended and the strand has run every observer
\* that delay deferred, the subscriber has seen every value that passed the
\* filter and then the terminal signal: none was cut off by the completion.
C37_DelayedSignalsSurviveCompletion ==
    (dl.front = "copy_if" /\ dl.kind = "run_loop" /\ dl.dstopped /\ dl.q = {}) =>
        Seen(dl.log) = dl.passed

(***************************************************************************)
(* Claims about the order of a teardown                                    *)
(***************************************************************************)
\* the place of hook h in a log of hook ids, 0 if it is not there
InsPos(h) ==
    IF \E k \in 1..Len(hookLog.ins) : hookLog.ins[k] = h
    THEN CHOOSE k \in 1..Len(hookLog.ins) : hookLog.ins[k] = h
    ELSE 0
RanPos(h) ==
    IF \E k \in 1..Len(hookLog.ran) : hookLog.ran[k].id = h
    THEN CHOOSE k \in 1..Len(hookLog.ran) : hookLog.ran[k].id = h
    ELSE 0

\* C16: of two stop-hooks stored on the same lifetime that its teardown has
\* run, the one inserted later ran first; and no stop-hook has run while the
\* stopped flag of its lifetime was false.
C16_HooksRunInReverseAfterFlag ==
    /\ \A k \in 1..Len(hookLog.ran) : ~hookLog.ran[k].live
    /\ \A g \in inTeardown, h \in inTeardown :
          (hookOwner[g] = hookOwner[h] /\ InsPos(g) < InsPos(h))
              => RanPos(h) < RanPos(g)

\* the teardown of a lifetime runs the user hook h in this step
HookRunsInTeardown(h) ==
    /\ runs'[h] = runs[h] + 1
    /\ h \in inTeardown' \ inTeardown

\* C18: when the teardown of L runs one of L's stop-hooks, every child stored
\* in L has finished its own teardown, and L's joiners have not been notified
\* yet - whether the teardowns run inline or on the strand of a context.
C18_ChildrenTornDownBeforeHooks ==
    [][\A h \in Hooks :
          HookRunsInTeardown(h) =>
              /\ ~tornDown[hookOwner[h]]
              /\ \A c \in attached[hookOwner[h]] : tornDown[c]]_vars

\* thread t is inside stop() on lifetime l, past the test of rx.h 269
InStop(t, l) ==
    \E k \in 1..Len(stack[t]) :
        /\ stack[t][k].op = "stop"
        /\ stack[t][k].l = l
        /\ stack[t][k].pc # "check"

SelfCall(t) ==
    /\ stack[t] # <<>>
    /\ Top(t).op \in {"insert", "erase"}
    /\ Top(t).pc = "check"
    /\ Top(t).l = Top(t).c

\* C23: a call L.insert(L) or L.erase(L) never gets past its first
\* statements and never returns - the program aborts - whether L is live or
\* stopped.
C23_SelfReferenceAborts ==
    [][\A t \in AllThreads : SelfCall(t) => (stack'[t] = stack[t])]_vars

(***************************************************************************)
(* Claims about locks                                                      *)
(***************************************************************************)
\* thread t is inside a stop() that took the lifetime's mutex and has not
\* released it
HoldsMutex(t) == \E k \in 1..Len(stack[t]) : stack[t][k].held

\* thread t takes this step
Steps(t) == stack'[t] # stack[t]

\* C25: a thread that runs a stop-hook, calls stop() on a child from a
\* teardown, or hands a teardown to the strand's queue does not hold the mutex
\* of a lifetime while it does so.
C25_NoCallbackUnderLock ==
    [][\A t \in AllThreads :
          (/\ Steps(t)
           /\ \/ \E h \in Hooks : runs'[h] > runs[h]
              \/ HasTop(t, "stop", "td_child") /\ Top(t).todo # {}
              \/ HasTop(t, "stop", "post"))
          => ~HoldsMutex(t)]_vars

\* thread t is inside l.stop(), whatever the call has reached
StopFrameOf(t, l) ==
    \E k \in 1..Len(stack[t]) : stack[t][k].op = "stop" /\ stack[t][k].l = l

\* some thread is inside p.insert(c)
PendingInsert(p, c) ==
    \E t \in AllThreads : \E k \in 1..Len(stack[t]) :
        stack[t][k].op = "insert" /\ stack[t][k].l = p /\ stack[t][k].c = c

\* C28: for a child C inserted into a live parent P, no step of C.stop()
\* (called from anywhere but P's own teardown) stops P or the strand's
\* lifetime or changes P's stoppers or P's other children, and once C's
\* teardown has finished, P being live and no further P.insert(C) being in
\* progress, C is no longer in P's child set - so a later P.stop() does not
\* find it there.
C28_ChildStopLeavesParent ==
    /\ [][\A t \in AllThreads :
            (Steps(t) /\ InStop(t, C) /\ ~StopFrameOf(t, P)) =>
                /\ stopped'[P] = stopped[P]
                /\ stopped'[S] = stopped[S]
                /\ stoppers'[P] = stoppers[P]
                /\ others'[P] \ {C} = others[P] \ {C}]_vars
    /\ []((tornDown[C] /\ ~stopped[P] /\ ~PendingInsert(P, C)) => C \notin others[P])

\* C.stop() has returned, its stopper has run once, and the live P has kept
\* the strand's lifetime as its child and a stopper of its own
C28_Witness ==
    /\ tornDown[C]
    /\ ~stopped[P]
    /\ Quiescent
    /\ runs[1] = 1
    /\ others[P] = {S}
    /\ stoppers[P] # <<>>

(***************************************************************************)
(* Claims about the lifetime of a context                                  *)
(***************************************************************************)
\* P is the lifetime of a context: the strand's lifetime is nested in it
IsContext == S \in attached[P]

\* the strand's worker is inside a data callback
InData == stack[Worker] # <<>> /\ stack[Worker][1].op = "data"

\* C26: no stop-hook of a context's lifetime runs while a data callback is
\* executing on the context's strand, and once the lifetime is stopped and
\* every call has returned the strand's lifetime is stopped too.
C26_TeardownOnOwnStrand ==
    /\ [][\A h \in Hooks :
            (IsContext /\ hookOwner[h] = P /\ runs'[h] > runs[h]) => ~InData]_vars
    /\ []((IsContext /\ stopped[P] /\ Quiescent) => stopped[S])

(***************************************************************************)
(* Claims about states                                                     *)
(***************************************************************************)
\* C17: no destructor of a state runs twice or while the lifetime's stopped
\* flag is false, and once the teardown of stop() has completed the
\* destructor of every state made on the lifetime has run.
C17_StatesDestroyedAtStop ==
    /\ \A k \in 1..Len(sto.ran) :
          /\ ~sto.ran[k].live
          /\ \A j \in 1..Len(sto.ran) : sto.ran[j].id = sto.ran[k].id => j = k
    /\ sto.tornDown =>
          \A i \in 1..sto.made : \E k \in 1..Len(sto.ran) : sto.ran[k].id = i

\* a call of make_state or copy_state ends in this step
StateCallEnds == sto.mk # "idle" /\ sto'.mk = "idle"

\* C22: a make_state or copy_state call made on a stopped lifetime never gets
\* as far as allocating; a call that throws leaves the destructors, the count
\* of payloads and the handles as they were, and it throws only on a stopped
\* lifetime; a call that returns has added exactly one destructor.
C22_MakeStateThrowsOrRegistersOne ==
    /\ [](sto.began => sto.mk # "lock")
    /\ [][StateCallEnds =>
            IF sto'.last = "thrown"
            THEN /\ sto.stopped
                 /\ sto'.destructors = sto.destructors
                 /\ sto'.made = sto.made
                 /\ sto'.refs = sto.refs
            ELSE /\ Len(sto'.destructors) = Len(sto.destructors) + 1
                 /\ sto'.made = sto.made + 1]_vars

\* a copy_state or make_state call on a stopped lifetime has thrown, after
\* states were made on it while it was live
C22_Witness ==
    /\ sto.last = "thrown"
    /\ sto.began
    /\ sto.mk = "idle"
    /\ Len(sto.destructors) = sto.made
    /\ sto.made > 0


(***************************************************************************)
(* Claims about finally                                                    *)
(***************************************************************************)
\* every call has returned and the strand has nothing left to run
FinallyQuiet ==
    /\ fin.pc = "done" \/ (fin.pc = "source" /\ fin.path = "none" /\ fin.left = 0)
    /\ \A t \in FinallyThreads : fin.stop[t] = "none"
    /\ fin.posted = 0 \/ fin.strand

\* C29: in source | finally(f) | subscriber the stopper f runs at most once,
\* never while the lifetime is live, and once the pipeline has terminated -
\* by the subscriber's complete, by its error, or by a stop() of the lifetime
\* from outside - and every call has returned, f has run exactly once.
C29_FinallyRunsOnce ==
    /\ fin.runs <= 1
    /\ ~fin.early
    /\ (FinallyQuiet /\ fin.stopped) => fin.runs = 1

(***************************************************************************)
(* Claims about observe_on                                                 *)
(***************************************************************************)
\* C30: for every source and subscriber, the subscriber of
\* source | observe_on(make_immediate) | subscriber has seen the same sequence
\* of next, error and complete signals as the subscriber of
\* source | subscriber, and so has the subscriber behind the general
\* observe_on on an immediate strand.
C30_ObserveOnImmediateIsNoOp ==
    /\ oo.pipes["fast"].seen = oo.pipes["direct"].seen
    /\ oo.pipes["general"].seen = oo.pipes["direct"].seen

\* a value and the completion have gone through the general observe_on and a
\* later call of the source was dropped
C30_Witness ==
    /\ oo.i = 3
    /\ oo.src = <<"next", "complete", "next">>
    /\ oo.pipes["general"].seen = <<"next", "complete">>
    /\ oo.pipes["general"].O

(***************************************************************************)
(* Claims about last_or_default and piped lifters                          *)
(***************************************************************************)
\* the values of s that satisfy copy_if's predicate
Evens(s) == SelectSeq(s, even)

\* source | [copy_if(even) |] [take(n) |] last_or_default(Default) | subscriber
LastPipeline ==
    /\ lp.pc \in {"loop", "complete", "returned"}
    /\ lp.chain[Len(lp.chain)] = "last_or_default"

\* what the operators in front of last_or_default have let through, worked
\* out from what the source emitted
LetThrough ==
    LET f == IF lp.chain[1] = "copy_if" THEN Evens(lp.out) ELSE lp.out IN
    IF HasTake(lp.chain) THEN SubSeq(f, 1, Min(lp.take, Len(f))) ELSE f

\* the upstream of last_or_default has completed: the source did, or take got
\* an input after its n-th
UpstreamCompleted ==
    \/ lp.ended
    \/ /\ HasTake(lp.chain)
       /\ Len(IF lp.chain[1] = "copy_if" THEN Evens(lp.out) ELSE lp.out) > lp.take

LastOf(s) == IF s = <<>> THEN Default ELSE s[Len(s)]

\* C32: behind last_or_default(def) the subscriber receives nothing before the
\* upstream completes; once it has completed - by the source's complete or by
\* take(n) - the subscriber has received exactly one next, carrying the last
\* value the upstream let through (def if none), and exactly one complete.
C32_LastOrDefault ==
    LastPipeline =>
        /\ ~UpstreamCompleted => (lp.seen = <<>> /\ lp.completes = 0)
        /\ UpstreamCompleted =>
              (lp.seen = <<LastOf(LetThrough)>> /\ lp.completes = 1 /\ lp.upc = 1)

\* 1..10 | copy_if(even) | take(3) | last_or_default(42): take has completed
\* the pipeline at 8 and the subscriber has 6 and one complete
C32_Witness ==
    /\ lp.src = "ints"
    /\ lp.last = 10
    /\ lp.chain = <<"copy_if", "take", "last_or_default">>
    /\ lp.take = 3
    /\ lp.out = <<1, 2, 3, 4, 5, 6, 7, 8>>
    /\ lp.pc = "returned"
    /\ lp.seen = <<6>>
    /\ lp.completes = 1

\* C34: a lifter made by piping two lifters together lifts a subscriber s to
\* the subscriber that the first lifter makes of what the second makes of s,
\* so that the pipeline built with it is the pipeline built one operator at a
\* time.
C34_PipedLiftersCompose ==
    (lp.route = "composed" /\ lp.pc # "bind") =>
        (lp.sub.ok /\ lp.sub = nested(lp.chain, 1))

(***************************************************************************)
(* Claims about the run-loop                                               *)
(***************************************************************************)
\* observer i was handed to the run-loop and is out of it: it is not queued
\* and no defer_at or call of it is in progress
Done(i) ==
    /\ i \in deferred
    /\ \A e \in queue : e.item # i
    /\ \A t \in SThreads : \A k \in 1..Len(cstack[t]) : cstack[t][k].item # i

\* the worker's callback calls self(at) in this step
SelfCalled == skind = "run_loop" /\ reschedLeft' # reschedLeft

\* the worker's call() of the popped item ends in this step (rx.h 2385-2388)
CallEnds ==
    /\ skind = "run_loop"
    /\ cstack["W"] # <<>>
    /\ cstack["W"][1].pc = "after"
    /\ cstack'["W"] = Tail(cstack["W"])

DeferWaits == rl.d = "insert" /\ rl.qlock = "D" /\ rl.slock = "S"

\* stop holds SL's mutex and waits, in the notify hook, for the queue lock
StopWaits == rl.s = "notify" /\ rl.slock = "S" /\ rl.qlock = "D"

\* C35: with one thread in defer_at on a run-loop strand and another in
\* stop() on that strand's lifetime, both calls return in every interleaving.
C35_DeferAndStopReturn ==
    /\ (rl.via = "strand" /\ rl.s # "idle") ~> (rl.s = "done")
    /\ (rl.via = "strand" /\ rl.d # "idle") ~> (rl.d = "idle")

Ords == 0..(MaxDefer + MaxResched - 1)

\* C40: once the run-loop's lifetime is stopped run() exits, whatever the
\* worker was doing, and while the lifetime is live every observer deferred
\* at a time is invoked once the clock has reached that time.
C40_RunLoopLiveness ==
    /\ rl.rstop ~> (rl.w = "exited")
    /\ \A o \in Ords :
          (\E e \in rl.deferred : e.ord = o) ~> (o \in rl.called \/ rl.rstop)

====
